---- MODULE Spec2Model ----
(***************************************************************************)
(* Dependency-graph assembly of code-canary: the SBOM aggregate            *)
(* (models.py), the graph assembler (sbom.py), the ecosystem parsers       *)
(* (parsers/*.py) and the registry resolver (javascript.py, python.py).    *)
(***************************************************************************)
EXTENDS Integers, Sequences, FiniteSets, TLC

\* ------------------------------------------------------------------------
\* Bounds of the model
\* ------------------------------------------------------------------------
MaxAdds == 3        \* add_package calls in a run of SpecAdd
MaxEntries == 2     \* entries of a manifest or lockfile
MaxDirect == 2      \* direct dependencies handed to the resolver
MaxRequires == 2    \* dependencies one registry answer declares
MaxDeclared == 3    \* dependencies all registry answers of a run declare
MaxFiles == 3       \* files in the project directory
MaxNameLen == 3     \* characters of a package name checked for typosquatting
MaxParts == 3       \* fragments a candidate suspicious name is built from
MaxProjects == 3    \* project paths handed to generate_sbom_parallel
MaxWorkers == 2     \* largest max_workers of a ParallelSBOMGenerator
MaxPackages == 5    \* packages handed to the intelligence gathering
batch_size == 2     \* packages per worker call (50 in modal_workers.py)

\* ------------------------------------------------------------------------
\* Data model (models.py)
\* ------------------------------------------------------------------------
None == "None"

DIRECT == "direct"
TRANSITIVE == "transitive"
DEV == "dev"
OPTIONAL == "optional"
DependencyType == {DIRECT, TRANSITIVE, DEV, OPTIONAL}

\* Package.purl: pkg:<manager>/<namespace/>name@version
purl(p) ==
    LET namespace_part == IF p.namespace # None THEN p.namespace \o "/" ELSE ""
    IN "pkg:" \o p.package_manager \o "/" \o namespace_part \o p.name \o "@" \o p.version

Package(name, version, language, package_manager, namespace) ==
    [name |-> name, version |-> version, language |-> language,
     package_manager |-> package_manager, namespace |-> namespace]

Dependency(package, dependency_type, parent, depth) ==
    [package |-> package, dependency_type |-> dependency_type,
     parent |-> parent, depth |-> depth]

\* Sequences over S of length at most n
BoundedSeq(S, n) == UNION {[1..k -> S] : k \in 0..n}

\* Range of a sequence
Range(s) == {s[i] : i \in 1..Len(s)}

\* ------------------------------------------------------------------------
\* State
\* ------------------------------------------------------------------------
VARIABLES
    packages,                 \* SBOM.packages
    dependencies,             \* SBOM.dependencies
    total_packages,           \* SBOM.total_packages
    direct_dependencies,      \* SBOM.direct_dependencies
    transitive_dependencies,  \* SBOM.transitive_dependencies
    languages,                \* SBOM.languages
    package_managers,         \* SBOM.package_managers
    lastAdd                   \* the arguments of the last add_package call

sbomVars == <<packages, dependencies, total_packages, direct_dependencies,
              transitive_dependencies, languages, package_managers, lastAdd>>

VARIABLES
    ppm,        \* the package manager of the parser under call
    pop,        \* the operation called: "manifest" or "lockfile"
    pfile,      \* the file handed to it
    pdirect,    \* names declared by the sibling package.json
    ppc,        \* "call" before the operation, "returned" after it
    presult     \* what the operation returned or raised

parseVars == <<ppm, pop, pfile, pdirect, ppc, presult>>

VARIABLES
    rpm,          \* the package manager of the parser that resolves
    rdirect,      \* resolve_transitive_dependencies' argument
    rall,         \* all_dependencies / all_deps
    seen,         \* seen_packages / seen
    ridx,         \* position of the loop over the direct dependencies
    stack,        \* the active calls of the recursive helper, outermost first
    rpc,          \* "idle", "start", "loop" or "done"
    registry,     \* the registry's answers to the fetches made so far
    emitted,      \* every transitive Dependency created so far, in order
    reach,        \* every (parent, declared dependency) pair visited so far
    failed,       \* packages whose fetch failed or whose metadata raised
    declared      \* how many declared dependencies the registry served so far

resolveVars == <<rpm, rdirect, rall, seen, ridx, stack, rpc, registry,
                 emitted, reach, failed, declared>>

VARIABLES
    project,             \* the files of the project directory: name -> content
    include_transitive,  \* generate_sbom's argument
    manifests,           \* detect_manifests' result
    tasks,               \* the parse tasks handed to asyncio.gather, in order
    gpc,                 \* where generate_sbom stands
    mi,                  \* index of the result being merged
    mj                   \* index of the next dependency of that result

pipeVars == <<project, include_transitive, manifests, tasks, gpc, mi, mj>>

\* One call of calculate_supply_chain_risk
VARIABLES
    intel,               \* the PackageIntelligence handed in
    risk,                \* the SupplyChainRisk returned, None before the call
    kpc                  \* "idle", "call" or "returned"

riskVars == <<intel, risk, kpc>>

\* One call of a name heuristic of SupplyChainIntelligence
VARIABLES
    nop,                 \* the method called
    nargs,               \* its arguments
    nresult,             \* its return value
    npc                  \* "idle", "call" or "returned"

nameVars == <<nop, nargs, nresult, npc>>

\* One call of ParallelSBOMGenerator.generate_sbom_parallel
VARIABLES
    project_paths,       \* per project: what generate_sbom does on it
    max_workers,         \* self.max_workers
    permits,             \* the semaphore's value
    waiters,             \* tasks blocked in semaphore.acquire, oldest first
    scan,                \* per task: where generate_with_semaphore stands
    sboms,               \* per task: what gather collected for it
    valid_sboms,         \* the list being returned
    qpc,                 \* where generate_sbom_parallel stands
    qi                   \* index of the filter loop

parVars == <<project_paths, max_workers, permits, waiters, scan, sboms,
             valid_sboms, qpc, qi>>

\* One call of a version helper of a parser
VARIABLES
    vhandler,            \* the manifest handler that reads the constraint
    vspec,               \* the constraint (or requirement line) as written
    vresult,             \* the version the Dependency's package gets
    vpc                  \* "idle", "call" or "returned"

verVars == <<vhandler, vspec, vresult, vpc>>

\* One call of a ModalSBOMService operation
VARIABLES
    mop,                 \* the operation called
    mstack,              \* the service calls in progress, innermost last
    mlog,                \* what the workers and the local steps did, in order
    mresult,             \* what the operation returned or raised
    mpc                  \* "idle", "call", "running" or "returned"

modalVars == <<mop, mstack, mlog, mresult, mpc>>

\* One intelligence gathering over a list of packages
VARIABLES
    ientry,              \* the method called
    ipackages,           \* len(packages)
    ioffset,             \* i of the batch loop
    outstanding,         \* the packages whose registry request is in flight
    istarted,            \* the gathers started so far: their package indices
    iresults,            \* len of the list being returned
    ipc                  \* where the gathering stands

intelVars == <<ientry, ipackages, ioffset, outstanding, istarted, iresults, ipc>>

extVars == <<verVars, modalVars, intelVars>>

auxVars == <<riskVars, nameVars, parVars, extVars>>

vars == <<sbomVars, parseVars, resolveVars, pipeVars, auxVars>>

\* no risk calculation in progress
RiskIdle ==
    /\ intel = None
    /\ risk = None
    /\ kpc = "idle"

\* no name heuristic in progress
NameIdle ==
    /\ nop = None
    /\ nargs = None
    /\ nresult = None
    /\ npc = "idle"

\* no parallel generation in progress
ParIdle ==
    /\ project_paths = <<>>
    /\ max_workers = 0
    /\ permits = 0
    /\ waiters = <<>>
    /\ scan = <<>>
    /\ sboms = <<>>
    /\ valid_sboms = <<>>
    /\ qpc = "idle"
    /\ qi = 0

\* no version helper in progress
VerIdle ==
    /\ vhandler = None
    /\ vspec = <<>>
    /\ vresult = <<"None">>
    /\ vpc = "idle"

\* no service operation in progress
ModalIdle ==
    /\ mop = None
    /\ mstack = <<>>
    /\ mlog = <<>>
    /\ mresult = None
    /\ mpc = "idle"

\* no intelligence gathering in progress
IntelIdle ==
    /\ ientry = None
    /\ ipackages = 0
    /\ ioffset = 0
    /\ outstanding = {}
    /\ istarted = <<>>
    /\ iresults = 0
    /\ ipc = "idle"

ExtIdle == VerIdle /\ ModalIdle /\ IntelIdle

AuxIdle == RiskIdle /\ NameIdle /\ ParIdle /\ ExtIdle


\* A freshly constructed SBOM
\* no parser call in progress
ParseIdle ==
    /\ ppm = None
    /\ pop = None
    /\ pfile = None
    /\ pdirect = {}
    /\ ppc = "idle"
    /\ presult = None

\* no scan in progress
PipeIdle ==
    /\ project = <<>>
    /\ include_transitive = FALSE
    /\ manifests = <<>>
    /\ tasks = <<>>
    /\ gpc = "idle"
    /\ mi = 0
    /\ mj = 0

\* no resolution in progress
ResolveIdle ==
    /\ rpm = None
    /\ rdirect = <<>>
    /\ rall = <<>>
    /\ seen = {}
    /\ ridx = 0
    /\ stack = <<>>
    /\ rpc = "idle"
    /\ registry = <<>>
    /\ emitted = <<>>
    /\ reach = <<>>
    /\ failed = {}
    /\ declared = 0

SBOMInit ==
    /\ packages = <<>>
    /\ dependencies = <<>>
    /\ total_packages = 0
    /\ direct_dependencies = 0
    /\ transitive_dependencies = 0
    /\ languages = {}
    /\ package_managers = {}
    /\ lastAdd = [called |-> FALSE]

\* get_package_by_purl giving up after the first record
get_package_by_purl_first_only(pkgs, p) ==
    IF Len(pkgs) > 0 /\ purl(pkgs[1]) = p THEN 1 ELSE 0

\* SBOM.get_package_by_purl: the position of the first record with that
\* PURL, 0 when the loop finds none (the method's None)
get_package_by_purl(pkgs, p) ==
    IF \E i \in 1..Len(pkgs) : purl(pkgs[i]) = p
    THEN CHOOSE i \in 1..Len(pkgs) :
                /\ purl(pkgs[i]) = p
                /\ \A j \in 1..(i - 1) : purl(pkgs[j]) # p
    ELSE 0

get_direct_dependencies(deps) ==
    SelectSeq(deps, LAMBDA d : d.dependency_type = DIRECT)

get_transitive_dependencies(deps) ==
    SelectSeq(deps, LAMBDA d : d.dependency_type = TRANSITIVE)

\* _update_statistics counting every non-transitive edge as direct
update_statistics_dev_as_direct(pkgs, deps) ==
    [total_packages |-> Len(pkgs),
     direct_dependencies |->
        Len(SelectSeq(deps, LAMBDA d : d.dependency_type # TRANSITIVE)),
     transitive_dependencies |-> Len(get_transitive_dependencies(deps))]

\* SBOM._update_statistics: the counters recomputed from the lists
update_statistics(pkgs, deps) ==
    [total_packages |-> Len(pkgs),
     direct_dependencies |-> Len(get_direct_dependencies(deps)),
     transitive_dependencies |-> Len(get_transitive_dependencies(deps))]

\* SBOM.add_package, its closing _update_statistics call included
add_package(package, dependency) ==
    LET existing_package == get_package_by_purl(packages, purl(package))
        newPackages == IF existing_package = 0
                       THEN Append(packages, package) ELSE packages
        newDeps == Append(dependencies, dependency)
    IN /\ packages' = newPackages
       /\ languages' = IF existing_package = 0
                       THEN languages \cup {package.language} ELSE languages
       /\ package_managers' = IF existing_package = 0
                              THEN package_managers \cup {package.package_manager}
                              ELSE package_managers
       /\ dependencies' = newDeps
       /\ total_packages' = update_statistics(newPackages, newDeps).total_packages
       /\ direct_dependencies' =
              update_statistics(newPackages, newDeps).direct_dependencies
       /\ transitive_dependencies' =
              update_statistics(newPackages, newDeps).transitive_dependencies
       /\ lastAdd' = [called |-> TRUE, package |-> package,
                      dependency |-> dependency,
                      existed |-> existing_package # 0,
                      before |-> packages]

\* ------------------------------------------------------------------------
\* Ecosystem parsers (parsers/*.py)
\*
\* A file is [name, state, entries].  state is "ok" (readable, well-formed),
\* "malformed" (readable, content the format's decoder rejects),
\* "badshape" (decodes, but the dependency sections do not have the expected
\* structure) or "unreadable" (missing or undecodable bytes).  entries are
\* the dependency declarations of a well-formed file, each
\* [name, section, nest]: section is the declaring section of a manifest
\* entry, nest is count("node_modules/") - 1 of an npm lockfile key (the
\* nesting depth of a v1 entry).
\* A parser operation yields Ok(deps) when it returns and Raise(e) when an
\* exception leaves it.
\* ------------------------------------------------------------------------
Ok(deps) == [ok |-> TRUE, deps |-> deps, error |-> None]
Raise(e) == [ok |-> FALSE, deps |-> <<>>, error |-> e]

JsManagers == {"npm", "yarn", "pnpm"}
PyManagers == {"pip", "poetry", "pipenv", "conda"}
JavaManagers == {"maven", "gradle"}
CppManagers == {"vcpkg", "conan"}
PackageManager == JsManagers \cup PyManagers \cup JavaManagers \cup CppManagers
                    \cup {"go_modules", "cargo", "bundler", "nuget"}

\* BaseParser.language of the parser that SBOMGenerator._initialize_parsers
\* registers for a package manager
LanguageOf(pm) ==
    IF pm \in JsManagers THEN "javascript"
    ELSE IF pm \in PyManagers THEN "python"
    ELSE IF pm \in JavaManagers THEN "java"
    ELSE IF pm \in CppManagers THEN "cpp"
    ELSE IF pm = "go_modules" THEN "go"
    ELSE IF pm = "cargo" THEN "rust"
    ELSE IF pm = "bundler" THEN "ruby"
    ELSE "csharp"

\* JavaScriptParser._extract_namespace over the names of the model
extract_namespace(name) == IF name = "@s/c" THEN "s" ELSE None

\* BaseParser.create_package
create_package(pm, name, namespace) ==
    Package(name, "1", LanguageOf(pm), pm, namespace)

\* BaseParser.create_dependency: parent and depth default to None and 0
create_dependency(package, dependency_type) ==
    Dependency(package, dependency_type, None, 0)

\* A handler whose read and decode sit inside try/except Exception
Guarded(file, deps) == IF file.state = "ok" THEN Ok(deps) ELSE Ok(<<>>)

\* A handler without try/except: read and decode errors leave it
Unguarded(file, deps) ==
    IF file.state = "ok" THEN Ok(deps)
    ELSE IF file.state = "unreadable" THEN Raise("FileNotFoundError")
    ELSE IF file.state = "malformed" THEN Raise("DecodeError")
    ELSE Raise("AttributeError")

\* The dependency type a handler gives an entry: "direct" and "transitive"
\* handlers type every entry alike, "section" handlers by the declaring
\* section, "dev_or_direct" handlers only tell development entries apart,
\* "listed" handlers by the lockfile's own direct marker
TypeOf(typing, e) ==
    IF typing = "direct" THEN DIRECT
    ELSE IF typing = "transitive" THEN TRANSITIVE
    ELSE IF typing = "section"
    THEN (IF e.section = "dev" THEN DEV
          ELSE IF e.section = "optional" THEN OPTIONAL
          ELSE DIRECT)
    ELSE IF typing = "dev_or_direct"
    THEN (IF e.section = "dev" THEN DEV ELSE DIRECT)
    ELSE (IF e.nest = 0 THEN DIRECT ELSE TRANSITIVE)

\* One dependency per entry, typed by the handler's typing
MapEntries(pm, entries, typing) ==
    [i \in 1..Len(entries) |->
        create_dependency(create_package(pm, entries[i].name, None),
                          TypeOf(typing, entries[i]))]

\* JavaScriptParser.parse_manifest: read and json.loads are guarded, the walk
\* over the three sections is not
JavaScriptParser_parse_manifest(pm, file) ==
    IF file.state \in {"unreadable", "malformed"} THEN Ok(<<>>)
    ELSE IF file.state = "badshape" THEN Raise("AttributeError")
    ELSE LET sect(t) == SelectSeq(file.entries, LAMBDA e : e.section = t)
             ordered == sect("runtime") \o sect("dev") \o sect("optional")
         IN Ok([i \in 1..Len(ordered) |->
                  create_dependency(
                      create_package(pm, ordered[i].name,
                                     extract_namespace(ordered[i].name)),
                      TypeOf("section", ordered[i]))])

\* _parse_npm_dependencies_v2 with the depth taken as the bare count of
\* node_modules/ segments, without the subtraction of one
parse_npm_dependencies_by_count(pm, entries) ==
    [i \in 1..Len(entries) |->
        Dependency(create_package(pm, entries[i].name,
                                  extract_namespace(entries[i].name)),
                   IF entries[i].nest + 1 = 0 THEN DIRECT ELSE TRANSITIVE,
                   None, entries[i].nest + 1)]

\* JavaScriptParser._parse_npm_dependencies_v2 (and _v1 for nest >= 0)
parse_npm_dependencies(pm, entries) ==
    [i \in 1..Len(entries) |->
        Dependency(create_package(pm, entries[i].name,
                                  extract_namespace(entries[i].name)),
                   IF entries[i].nest = 0 THEN DIRECT ELSE TRANSITIVE,
                   None, entries[i].nest)]

\* JavaScriptParser._parse_yarn_lockfile / _parse_pnpm_lockfile: directness
\* by the names the sibling package.json declares
parse_cross_referenced(pm, entries, direct_deps) ==
    [i \in 1..Len(entries) |->
        create_dependency(
            create_package(pm, entries[i].name,
                           extract_namespace(entries[i].name)),
            IF entries[i].name \in direct_deps THEN DIRECT ELSE TRANSITIVE)]

\* JavaScriptParser.parse_lockfile: no handler has a try/except
JavaScriptParser_parse_lockfile(pm, file, direct_deps) ==
    IF file.name = "package-lock.json"
    THEN Unguarded(file, parse_npm_dependencies(pm, file.entries))
    ELSE IF file.name = "yarn.lock"
    THEN (IF file.state = "unreadable" THEN Raise("FileNotFoundError")
          ELSE IF file.state = "ok"
          THEN Ok(parse_cross_referenced(pm, file.entries, direct_deps))
          ELSE Ok(<<>>))
    ELSE IF file.name = "pnpm-lock.yaml"
    THEN Unguarded(file, parse_cross_referenced(pm, file.entries, direct_deps))
    ELSE Raise("ValueError")

\* PythonParser._parse_requirements: only the read is guarded; a line that
\* is no requirement still becomes a package named by the line
PythonParser_parse_requirements(pm, file) ==
    IF file.state = "unreadable" THEN Ok(<<>>)
    ELSE IF file.state = "ok" THEN Ok(MapEntries(pm, file.entries, "direct"))
    ELSE Ok(<<create_dependency(create_package(pm, "{junk", None), DIRECT)>>)

\* PythonParser.parse_manifest
PythonParser_parse_manifest(pm, file) ==
    IF file.name \in {"requirements.txt", "requirements.in", "requirements-dev.txt"}
    THEN PythonParser_parse_requirements(pm, file)
    ELSE IF file.name \in {"pyproject.toml", "Pipfile"}
    THEN Unguarded(file,
            MapEntries(pm, SelectSeq(file.entries,
                                     LAMBDA e : e.section # "optional"),
                       "dev_or_direct"))
    ELSE IF file.name \in {"environment.yml", "environment.yaml"}
    THEN Unguarded(file, MapEntries(pm, file.entries, "direct"))
    ELSE Ok(<<>>)

\* PythonParser.parse_lockfile
PythonParser_parse_lockfile(pm, file) ==
    IF file.name \in {"poetry.lock", "Pipfile.lock", "conda-lock.yml",
                      "conda-lock.yaml"}
    THEN Unguarded(file, MapEntries(pm, file.entries, "transitive"))
    ELSE IF file.name \in {"requirements.txt", "requirements-dev.txt"}
    THEN (IF file.state = "unreadable" THEN Raise("FileNotFoundError")
          ELSE IF file.state = "ok"
          THEN Ok(MapEntries(pm, file.entries, "transitive"))
          ELSE Ok(<<create_dependency(create_package(pm, "{junk", None),
                                      TRANSITIVE)>>))
    ELSE Raise("ValueError")

\* JavaParser.parse_manifest
JavaParser_parse_manifest(pm, file) ==
    IF file.name \in {"pom.xml", "build.gradle", "build.gradle.kts"}
    THEN Guarded(file, MapEntries(pm, file.entries, "dev_or_direct"))
    ELSE Ok(<<>>)

\* JavaParser.parse_lockfile
JavaParser_parse_lockfile(pm, file) ==
    IF file.name = "gradle.lockfile"
    THEN Guarded(file, MapEntries(pm, file.entries, "transitive"))
    ELSE Ok(<<>>)

\* The entries of a sequence without their later repetitions
RECURSIVE Dedup(_)
Dedup(seq) ==
    IF seq = <<>> THEN <<>>
    ELSE LET init == Dedup(SubSeq(seq, 1, Len(seq) - 1))
             last == seq[Len(seq)]
         IN IF \E i \in 1..Len(init) : init[i].name = last.name
            THEN init ELSE Append(init, last)

\* GoParser.parse_manifest
GoParser_parse_manifest(pm, file) ==
    IF file.name # "go.mod" THEN Ok(<<>>)
    ELSE Guarded(file, MapEntries(pm, file.entries, "direct"))

\* GoParser.parse_lockfile without the package_versions set: one dependency
\* per matching line
GoParser_parse_lockfile_every_line(pm, file) ==
    IF file.name # "go.sum" THEN Ok(<<>>)
    ELSE Guarded(file, MapEntries(pm, file.entries, "transitive"))

\* GoParser.parse_lockfile: one dependency per module@version
GoParser_parse_lockfile(pm, file) ==
    IF file.name # "go.sum" THEN Ok(<<>>)
    ELSE Guarded(file, MapEntries(pm, Dedup(file.entries), "transitive"))

\* RustParser.parse_manifest
RustParser_parse_manifest(pm, file) ==
    IF file.name # "Cargo.toml" THEN Ok(<<>>)
    ELSE Guarded(file,
            MapEntries(pm, SelectSeq(file.entries, LAMBDA e : e.section = "runtime")
                           \o SelectSeq(file.entries, LAMBDA e : e.section = "dev"),
                       "dev_or_direct"))

\* RustParser.parse_lockfile
RustParser_parse_lockfile(pm, file) ==
    IF file.name # "Cargo.lock" THEN Ok(<<>>)
    ELSE Guarded(file, MapEntries(pm, file.entries, "transitive"))

\* RubyParser.parse_manifest: every gem line is matched once as a regular
\* gem, and the gem lines of a development/test group a second time
RubyParser_parse_manifest(pm, file) ==
    IF file.name # "Gemfile" THEN Ok(<<>>)
    ELSE Guarded(file,
            MapEntries(pm, file.entries, "direct")
            \o MapEntries(pm, SelectSeq(file.entries,
                                        LAMBDA e : e.section # "runtime"),
                          "dev_or_direct"))

\* RubyParser.parse_lockfile
RubyParser_parse_lockfile(pm, file) ==
    IF file.name # "Gemfile.lock" THEN Ok(<<>>)
    ELSE Guarded(file, MapEntries(pm, file.entries, "transitive"))

\* CppParser.parse_manifest
CppParser_parse_manifest(pm, file) ==
    IF file.name \in {"vcpkg.json", "conanfile.txt", "conanfile.py"}
    THEN Guarded(file, MapEntries(pm, file.entries, "direct"))
    ELSE Ok(<<>>)

\* CppParser.parse_lockfile
CppParser_parse_lockfile(pm, file) ==
    IF file.name = "vcpkg-configuration.json" THEN Ok(<<>>)
    ELSE IF file.name = "conan.lock"
    THEN Guarded(file, MapEntries(pm, file.entries, "transitive"))
    ELSE Ok(<<>>)

\* CSharpParser.parse_manifest
CSharpParser_parse_manifest(pm, file) ==
    IF file.name \in {"app.csproj", "app.vbproj", "Directory.Build.props"}
    THEN Guarded(file, MapEntries(pm, file.entries, "direct"))
    ELSE IF file.name = "packages.config"
    THEN Guarded(file, MapEntries(pm, file.entries, "dev_or_direct"))
    ELSE Ok(<<>>)

\* CSharpParser.parse_lockfile: "type": "Direct" entries are direct
CSharpParser_parse_lockfile(pm, file) ==
    IF file.name = "packages.lock.json"
    THEN Guarded(file,
            MapEntries(pm, file.entries, "listed"))
    ELSE Ok(<<>>)

\* parser.parse_manifest of the parser registered for pm
parse_manifest(pm, file) ==
    IF pm \in JsManagers THEN JavaScriptParser_parse_manifest(pm, file)
    ELSE IF pm \in PyManagers THEN PythonParser_parse_manifest(pm, file)
    ELSE IF pm \in JavaManagers THEN JavaParser_parse_manifest(pm, file)
    ELSE IF pm \in CppManagers THEN CppParser_parse_manifest(pm, file)
    ELSE IF pm = "go_modules" THEN GoParser_parse_manifest(pm, file)
    ELSE IF pm = "cargo" THEN RustParser_parse_manifest(pm, file)
    ELSE IF pm = "bundler" THEN RubyParser_parse_manifest(pm, file)
    ELSE CSharpParser_parse_manifest(pm, file)

\* parser.parse_lockfile of the parser registered for pm; direct_deps are the
\* names the sibling package.json declares (read by the JavaScript parser)
parse_lockfile(pm, file, direct_deps) ==
    IF pm \in JsManagers THEN JavaScriptParser_parse_lockfile(pm, file, direct_deps)
    ELSE IF pm \in PyManagers THEN PythonParser_parse_lockfile(pm, file)
    ELSE IF pm \in JavaManagers THEN JavaParser_parse_lockfile(pm, file)
    ELSE IF pm \in CppManagers THEN CppParser_parse_lockfile(pm, file)
    ELSE IF pm = "go_modules" THEN GoParser_parse_lockfile(pm, file)
    ELSE IF pm = "cargo" THEN RustParser_parse_lockfile(pm, file)
    ELSE IF pm = "bundler" THEN RubyParser_parse_lockfile(pm, file)
    ELSE CSharpParser_parse_lockfile(pm, file)

\* ------------------------------------------------------------------------
\* Registry resolver (JavaScriptParser / PythonParser
\* .resolve_transitive_dependencies and their recursive helpers; the other
\* parsers return their argument)
\*
\* The registry answers a fetch for a package with "fail" (non-200 status,
\* timeout, connection error, undecodable body) or with the list of declared
\* dependencies; an entry BadEntry makes the helper raise when it reaches it
\* (a constraint or requirement that is no string).
\* ------------------------------------------------------------------------
JsMaxDepth == 3
PyMaxDepth == 2

BadEntry == "!bad"

\* max_depth of the recursive helper
max_depth(pm) == IF pm \in JsManagers THEN JsMaxDepth ELSE PyMaxDepth

\* the Package the helper builds for a declared dependency
resolved_package(pm, name) ==
    create_package(pm, name,
                   IF pm \in JsManagers THEN extract_namespace(name) ELSE None)

\* a helper call at depth 'depth' returns [] before any fetch
DepthExceeded_never(depth, max) == FALSE

DepthExceeded(depth, max) == depth > max

\* the dedup test on the shared seen set
AlreadySeen_never(p, seenSet) == FALSE

AlreadySeen(p, seenSet) == p \in seenSet

\* what a helper call returns when its fetch fails or an exception reaches
\* its handler: JavaScript passes and returns what it collected, Python
\* returns []
FailureResult(pm, collected) == IF pm \in JsManagers THEN collected ELSE <<>>

\* a child's failure wiping what the caller collected
ExtendWith_propagating(collected, nested, childFailed) ==
    IF childFailed THEN <<>> ELSE collected \o nested

\* dependencies.extend(nested_deps) / all_dependencies.extend(transitive_deps)
ExtendWith(collected, nested, childFailed) == collected \o nested

NoDupSeqs(S, n) ==
    {q \in BoundedSeq(S, n) : \A i, j \in 1..Len(q) : q[i] = q[j] => i = j}

\* Package names only matter up to equality, so packages are named in the
\* order in which they first appear: a name is new to a list position when
\* every name before it in NameOrder is known already
NameOrder == <<"a", "b", "c", "d">>

RegNames == Range(NameOrder)

InOrder(q, known) ==
    \A i \in 1..Len(q) : \A k \in 1..Len(NameOrder) :
        q[i] = NameOrder[k] =>
            \A m \in 1..(k - 1) :
                NameOrder[m] \in known \cup {q[j] : j \in 1..(i - 1)}

RegistryAnswers ==
    {[status |-> "fail", requires |-> <<>>]}
        \cup {[status |-> "ok", requires |-> q] :
                q \in NoDupSeqs(RegNames \cup {BadEntry}, MaxRequires)}

\* the names that occurred so far
KnownNames ==
    {rdirect[i].package.name : i \in 1..Len(rdirect)}
        \cup UNION {Range(registry[i].answer.requires) : i \in 1..Len(registry)}

ResolveManagers == {"npm", "pip", "go_modules"}

ResolveInit ==
    /\ SBOMInit
    /\ AuxIdle
    /\ ParseIdle
    /\ PipeIdle
    /\ rpm \in ResolveManagers
    /\ \E names \in {q \in BoundedSeq(RegNames, MaxDirect) : InOrder(q, {})} :
         rdirect = [i \in 1..Len(names) |->
                      create_dependency(create_package(rpm, names[i], None),
                                        IF i = 1 THEN DIRECT ELSE DEV)]
    /\ rall = <<>>
    /\ seen = {}
    /\ ridx = 0
    /\ stack = <<>>
    /\ rpc = "start"
    /\ registry = <<>>
    /\ emitted = <<>>
    /\ reach = <<>>
    /\ failed = {}
    /\ declared = 0

Frame(package, depth) ==
    [package |-> package, depth |-> depth, pc |-> "enter", todo |-> <<>>,
     collected |-> <<>>]

Top == stack[Len(stack)]

\* the stack after its top call returned 'result': the caller extends its
\* list, or the loop of resolve_transitive_dependencies extends
\* all_dependencies and moves to the next direct dependency
Return(result, childFailed) ==
    IF Len(stack) > 1
    THEN /\ stack' = [SubSeq(stack, 1, Len(stack) - 1) EXCEPT
                        ![Len(stack) - 1].collected =
                            ExtendWith(@, result, childFailed)]
         /\ UNCHANGED <<rall, ridx>>
    ELSE /\ stack' = <<>>
         /\ rall' = ExtendWith(rall, result, childFailed)
         /\ ridx' = ridx + 1

\* GoParser (and Rust, Ruby, Java, C/C++, C#)
\* .resolve_transitive_dependencies: return dependencies
ResolveIdentity ==
    /\ rpc = "start"
    /\ rpm \notin JsManagers \cup PyManagers
    /\ rall' = rdirect
    /\ rpc' = "done"
    /\ UNCHANGED <<auxVars, sbomVars, parseVars, pipeVars, rpm, rdirect, seen, ridx, stack,
                   registry, emitted, reach, failed, declared>>

\* all_dependencies = dependencies.copy(); seen = {purl of each}
ResolveBegin ==
    /\ rpc = "start"
    /\ rpm \in JsManagers \cup PyManagers
    /\ rall' = rdirect
    /\ seen' = {purl(rdirect[i].package) : i \in 1..Len(rdirect)}
    /\ ridx' = 1
    /\ rpc' = "loop"
    /\ UNCHANGED <<auxVars, sbomVars, parseVars, pipeVars, rpm, rdirect, stack, registry,
                   emitted, reach, failed, declared>>

\* for dependency in dependencies: await helper(package, seen, depth=1)
ResolveDirect ==
    /\ rpc = "loop"
    /\ stack = <<>>
    /\ ridx <= Len(rdirect)
    /\ stack' = <<Frame(rdirect[ridx].package, 1)>>
    /\ UNCHANGED <<auxVars, sbomVars, parseVars, pipeVars, rpm, rdirect, rall, seen, ridx, rpc,
                   registry, emitted, reach, failed, declared>>

\* if depth > max_depth: return []
HelperDepthCutoff ==
    /\ rpc = "loop"
    /\ stack # <<>>
    /\ Top.pc = "enter"
    /\ DepthExceeded(Top.depth, max_depth(rpm))
    /\ Return(<<>>, FALSE)
    /\ UNCHANGED <<auxVars, sbomVars, parseVars, pipeVars, rpm, rdirect, seen, rpc, registry,
                   emitted, reach, failed, declared>>

\* await client.get(url): the registry answers (the same answer as before
\* for a package fetched before; what follows a raising entry is never read,
\* so a raising entry is written last)
HelperFetch ==
    /\ rpc = "loop"
    /\ stack # <<>>
    /\ Top.pc = "enter"
    /\ ~DepthExceeded(Top.depth, max_depth(rpm))
    /\ LET before == {i \in 1..Len(registry) : registry[i].name = Top.package.name}
           answers == IF before # {}
                      THEN {registry[CHOOSE i \in before : TRUE].answer}
                      ELSE {a \in RegistryAnswers :
                              declared + Len(a.requires) <= MaxDeclared}
           known == KnownNames
       IN \E answer \in answers :
            /\ InOrder(answer.requires, known)
            /\ \A k \in 1..Len(answer.requires) :
                  answer.requires[k] = BadEntry => k = Len(answer.requires)
            /\ declared' = IF before # {} THEN declared
                           ELSE declared + Len(answer.requires)
            /\ registry' = Append(registry, [name |-> Top.package.name,
                                             depth |-> Top.depth,
                                             answer |-> answer])
            /\ IF answer.status = "fail"
               THEN /\ Return(FailureResult(rpm, Top.collected), TRUE)
                    /\ failed' = failed \cup {Top.package.name}
               ELSE /\ stack' = [stack EXCEPT
                                   ![Len(stack)].pc = "iter",
                                   ![Len(stack)].todo = answer.requires]
                    /\ UNCHANGED <<rall, ridx, failed>>
    /\ UNCHANGED <<auxVars, sbomVars, parseVars, pipeVars, rpm, rdirect, seen, rpc, emitted,
                   reach>>

\* an entry of the metadata raises: the helper's except clause ends the call
HelperRaise ==
    /\ rpc = "loop"
    /\ stack # <<>>
    /\ Top.pc = "iter"
    /\ Top.todo # <<>>
    /\ Head(Top.todo) = BadEntry
    /\ Return(FailureResult(rpm, Top.collected), TRUE)
    /\ failed' = failed \cup {Top.package.name}
    /\ UNCHANGED <<auxVars, sbomVars, parseVars, pipeVars, rpm, rdirect, seen, rpc, registry,
                   emitted, reach, declared>>

\* a declared dependency whose PURL is in the seen set is skipped
HelperSkipSeen ==
    /\ rpc = "loop"
    /\ stack # <<>>
    /\ Top.pc = "iter"
    /\ Top.todo # <<>>
    /\ Head(Top.todo) # BadEntry
    /\ LET child == resolved_package(rpm, Head(Top.todo))
       IN /\ AlreadySeen(purl(child), seen)
          /\ reach' = Append(reach, [parent |-> Top.package.name,
                                     child |-> child.name])
    /\ stack' = [stack EXCEPT ![Len(stack)].todo = Tail(@)]
    /\ UNCHANGED <<auxVars, sbomVars, parseVars, pipeVars, rpm, rdirect, rall, seen, ridx, rpc,
                   registry, emitted, failed, declared>>

\* a new declared dependency: mark seen, emit, recurse with depth + 1
HelperEmit ==
    /\ rpc = "loop"
    /\ stack # <<>>
    /\ Top.pc = "iter"
    /\ Top.todo # <<>>
    /\ Head(Top.todo) # BadEntry
    /\ LET child == resolved_package(rpm, Head(Top.todo))
           dep == Dependency(child, TRANSITIVE, purl(Top.package), Top.depth)
       IN /\ ~AlreadySeen(purl(child), seen)
          /\ seen' = seen \cup {purl(child)}
          /\ reach' = Append(reach, [parent |-> Top.package.name,
                                     child |-> child.name])
          /\ emitted' = Append(emitted, [dep |-> dep, by |-> Top.package.name])
          /\ stack' = Append([stack EXCEPT ![Len(stack)].todo = Tail(@),
                                           ![Len(stack)].collected = Append(@, dep)],
                             Frame(child, Top.depth + 1))
    /\ UNCHANGED <<auxVars, sbomVars, parseVars, pipeVars, rpm, rdirect, rall, ridx, rpc,
                   registry, failed, declared>>

\* return dependencies
HelperReturn ==
    /\ rpc = "loop"
    /\ stack # <<>>
    /\ Top.pc = "iter"
    /\ Top.todo = <<>>
    /\ Return(Top.collected, FALSE)
    /\ UNCHANGED <<auxVars, sbomVars, parseVars, pipeVars, rpm, rdirect, seen, rpc, registry,
                   emitted, reach, failed, declared>>

\* return all_dependencies
ResolveFinish ==
    /\ rpc = "loop"
    /\ stack = <<>>
    /\ ridx > Len(rdirect)
    /\ rpc' = "done"
    /\ UNCHANGED <<auxVars, sbomVars, parseVars, pipeVars, rpm, rdirect, rall, seen, ridx, stack,
                   registry, emitted, reach, failed, declared>>

ResolveNext ==
    \/ ResolveIdentity
    \/ ResolveBegin
    \/ ResolveDirect
    \/ HelperDepthCutoff
    \/ HelperFetch
    \/ HelperRaise
    \/ HelperSkipSeen
    \/ HelperEmit
    \/ HelperReturn
    \/ ResolveFinish

SpecResolve == ResolveInit /\ [][ResolveNext]_vars

\* the event loop runs every awaited call to its end
FairSpecResolve == SpecResolve /\ WF_vars(ResolveNext)

DirectNames == {rdirect[i].package.name : i \in 1..Len(rdirect)}

\* packages whose fetch got no 200 answer
FetchFailed ==
    {registry[i].name : i \in {k \in 1..Len(registry) :
                                  registry[k].answer.status = "fail"}}

\* the depth recorded for a package: 0 for a direct one, else the depth of
\* its transitive Dependency
RecordedDepth(name) ==
    IF name \in DirectNames THEN 0
    ELSE LET i == CHOOSE k \in 1..Len(emitted) : emitted[k].dep.package.name = name
         IN emitted[i].dep.depth

\* the parent of the first visit of a declared dependency
FirstReacher(name) ==
    LET i == CHOOSE k \in 1..Len(reach) :
                 /\ reach[k].child = name
                 /\ \A m \in 1..(k - 1) : reach[m].child # name
    IN reach[i].parent

\* a call on the path from a direct dependency down to 'name' ended in failure
RECURSIVE FailedOnPath(_)
FailedOnPath(name) ==
    \/ name \in failed
    \/ /\ name \notin DirectNames
       /\ \E k \in 1..Len(emitted) :
             /\ emitted[k].dep.package.name = name
             /\ FailedOnPath(emitted[k].by)

\* The recursion stays bounded: no fetch is made beyond max_depth, it is
\* never deeper than max_depth + 1 calls, and no package is expanded twice
\* below a direct dependency.
C5_DepthBounded ==
    /\ \A i \in 1..Len(registry) : registry[i].depth <= max_depth(rpm)
    /\ Len(stack) <= max_depth(rpm) + 1
    /\ \A i, j \in 2..Len(stack) :
          stack[i].package.name = stack[j].package.name => i = j

\* C5: resolve_transitive_dependencies terminates for every finite direct
\* list and every registry, cyclic ones included: the recursion stays
\* bounded by the depth bound and the seen set, and every resolution
\* reaches its return.
C5_Terminates == [](C5_DepthBounded) /\ <>(rpc = "done")

C5_Witness ==
    /\ rpc = "done"
    /\ \E k \in 1..Len(emitted) : emitted[k].dep.depth = max_depth(rpm)
    /\ \E k \in 1..Len(reach) :
          /\ reach[k].child \in DirectNames
          /\ reach[k].parent \notin DirectNames

\* C6: a PURL is emitted as a transitive Dependency at most once and never
\* when it equals a direct dependency's PURL; the Dependency names the first
\* package that reached it as parent and has that parent's depth plus one;
\* the result lists it at most once, and exactly once when no call failed.
C6_EmittedOnce ==
    /\ \A i, j \in 1..Len(emitted) :
          purl(emitted[i].dep.package) = purl(emitted[j].dep.package) => i = j
    /\ \A i \in 1..Len(emitted) :
          LET dep == emitted[i].dep
          IN /\ dep.dependency_type = TRANSITIVE
             /\ \A k \in 1..Len(rdirect) :
                   purl(dep.package) # purl(rdirect[k].package)
             /\ emitted[i].by = FirstReacher(dep.package.name)
             /\ dep.parent = purl(resolved_package(rpm, emitted[i].by))
             /\ dep.depth = RecordedDepth(emitted[i].by) + 1
    /\ \A i, j \in 1..Len(rall) :
          /\ rall[i].dependency_type = TRANSITIVE
          /\ purl(rall[i].package) = purl(rall[j].package)
          => i = j
    /\ rpc = "done" /\ failed = {} =>
          \A i \in 1..Len(emitted) :
              \E k \in 1..Len(rall) : rall[k] = emitted[i].dep

C6_Witness ==
    /\ rpc = "done"
    /\ \E i, j \in 1..Len(reach) :
          /\ i < j
          /\ reach[i].child = reach[j].child
          /\ reach[i].parent # reach[j].parent
          /\ \A m \in 1..(i - 1) : reach[m].child # reach[i].child
          /\ \E k \in 1..Len(rall) :
                /\ rall[k].dependency_type = TRANSITIVE
                /\ rall[k].package.name = reach[i].child
                /\ rall[k].parent = purl(resolved_package(rpm, reach[i].parent))
                /\ rall[k].depth > 1

\* C7: a failed fetch for a package leaves that package without a subtree
\* and touches nothing else: the result starts with every direct dependency
\* and holds every Dependency emitted on a path on which no call failed.
C7_FailureIsLocal ==
    /\ \A i \in 1..Len(emitted) : emitted[i].by \notin FetchFailed
    /\ rpc = "done" =>
          /\ Len(rall) >= Len(rdirect)
          /\ SubSeq(rall, 1, Len(rdirect)) = rdirect
          /\ \A i \in 1..Len(emitted) :
                ~FailedOnPath(emitted[i].by) =>
                    \E k \in 1..Len(rall) : rall[k] = emitted[i].dep

C7_Witness ==
    /\ rpc = "done"
    /\ \E p \in FetchFailed :
          /\ p \notin DirectNames
          /\ \E i \in 1..Len(emitted) :
                /\ emitted[i].by # p
                /\ emitted[i].dep.package.name # p
                /\ emitted[i].dep.depth = 2
                /\ \E k \in 1..Len(rall) : rall[k] = emitted[i].dep

\* the packages at most k declared-dependency hops from a direct dependency,
\* over the declarations the resolution has read
RECURSIVE WithinHops(_)
WithinHops(k) ==
    IF k = 0 THEN DirectNames
    ELSE LET near == WithinHops(k - 1)
         IN near \cup {reach[i].child :
                          i \in {m \in 1..Len(reach) : reach[m].parent \in near}}

\* the packages whose declared dependencies were fetched
Fetched == {registry[i].name : i \in 1..Len(registry)}

\* C30: when every fetch succeeds the resolution is complete within its
\* depth bound whatever the visiting order: every package at most
\* max_depth hops from a direct dependency is in the result, and the
\* declared dependencies of every package fewer than max_depth hops away
\* have been read, so that none of the packages they name can be missing.
C30_CompleteWithinDepth ==
    (/\ rpc = "done"
     /\ rpm \in JsManagers \cup PyManagers
     /\ failed = {})
        => /\ \A n \in WithinHops(max_depth(rpm)) :
                 \E k \in 1..Len(rall) : rall[k].package.name = n
           /\ WithinHops(max_depth(rpm) - 1) \subseteq Fetched

\* ------------------------------------------------------------------------
\* Specification SpecParse: one parser operation on one file
\* ------------------------------------------------------------------------
EntryNames == {"a", "@s/c"}
Sections == {"runtime", "dev", "optional"}
LockNests == {-1, 0, 1}
ManifestEntries == [name : EntryNames, section : Sections, nest : {0}]
LockEntries == [name : EntryNames, section : {"runtime"}, nest : LockNests]
FileStates == {"ok", "malformed", "badshape", "unreadable"}

\* The manifest names a parser's parse_manifest dispatches on
ManifestNames(pm) ==
    IF pm \in JsManagers THEN {"package.json"}
    ELSE IF pm \in PyManagers
    THEN {"requirements.txt", "requirements.in", "requirements-dev.txt",
          "pyproject.toml", "Pipfile", "environment.yml", "environment.yaml"}
    ELSE IF pm \in JavaManagers THEN {"pom.xml", "build.gradle", "build.gradle.kts"}
    ELSE IF pm \in CppManagers THEN {"vcpkg.json", "conanfile.txt", "conanfile.py"}
    ELSE IF pm = "go_modules" THEN {"go.mod"}
    ELSE IF pm = "cargo" THEN {"Cargo.toml"}
    ELSE IF pm = "bundler" THEN {"Gemfile"}
    ELSE {"app.csproj", "app.vbproj", "packages.config", "Directory.Build.props"}

\* The lockfile names a parser's parse_lockfile dispatches on
LockfileNames(pm) ==
    IF pm \in JsManagers THEN {"package-lock.json", "yarn.lock", "pnpm-lock.yaml"}
    ELSE IF pm \in PyManagers
    THEN {"poetry.lock", "Pipfile.lock", "conda-lock.yml", "conda-lock.yaml",
          "requirements.txt", "requirements-dev.txt"}
    ELSE IF pm \in JavaManagers THEN {"gradle.lockfile"}
    ELSE IF pm \in CppManagers THEN {"vcpkg-configuration.json", "conan.lock"}
    ELSE IF pm = "go_modules" THEN {"go.sum"}
    ELSE IF pm = "cargo" THEN {"Cargo.lock"}
    ELSE IF pm = "bundler" THEN {"Gemfile.lock"}
    ELSE {"packages.lock.json"}

\* Names no parser dispatches on
UnknownNames == {"requirements.lock", "gems.locked"}

FileNames ==
    UNION {ManifestNames(pm) \cup LockfileNames(pm) : pm \in PackageManager}
        \cup UnknownNames

ParseInit ==
    /\ SBOMInit
    /\ AuxIdle
    /\ ResolveIdle
    /\ PipeIdle
    /\ ppm \in PackageManager
    /\ pop \in {"manifest", "lockfile"}
    /\ \E n \in FileNames, st \in FileStates :
         \E es \in BoundedSeq(IF pop = "manifest" THEN ManifestEntries
                              ELSE LockEntries, MaxEntries) :
            /\ (st # "ok" => es = <<>>)
            /\ pfile = [name |-> n, state |-> st, entries |-> es]
    /\ pdirect \in (IF pop = "lockfile" /\ ppm \in JsManagers
                       /\ pfile.name \in {"yarn.lock", "pnpm-lock.yaml"}
                       /\ pfile.state = "ok"
                    THEN SUBSET EntryNames ELSE {{}})
    /\ ppc = "call"
    /\ presult = None

\* await parser.parse_manifest(path)
CallParseManifest ==
    /\ ppc = "call"
    /\ pop = "manifest"
    /\ presult' = parse_manifest(ppm, pfile)
    /\ ppc' = "returned"
    /\ UNCHANGED <<auxVars, sbomVars, resolveVars, pipeVars, ppm, pop, pfile, pdirect>>

\* await parser.parse_lockfile(path)
CallParseLockfile ==
    /\ ppc = "call"
    /\ pop = "lockfile"
    /\ presult' = parse_lockfile(ppm, pfile, pdirect)
    /\ ppc' = "returned"
    /\ UNCHANGED <<auxVars, sbomVars, resolveVars, pipeVars, ppm, pop, pfile, pdirect>>

ParseNext == CallParseManifest \/ CallParseLockfile

SpecParse == ParseInit /\ [][ParseNext]_vars

\* C8: parse_manifest and parse_lockfile on a file of a supported name that
\* is malformed or cannot be read return an empty list and never raise.
C8_MalformedYieldsEmpty ==
    (/\ ppc = "returned"
     /\ pfile.state # "ok"
     /\ pfile.name \in (IF pop = "manifest" THEN ManifestNames(ppm)
                        ELSE LockfileNames(ppm)))
        => (presult.ok /\ presult.deps = <<>>)

\* C9: parse_lockfile on a lockfile name the parser does not recognise
\* signals an unsupported-format error and never returns a list.
C9_UnknownLockfileRaises ==
    (/\ ppc = "returned"
     /\ pop = "lockfile"
     /\ pfile.name \notin LockfileNames(ppm))
        => (~presult.ok /\ presult.error = "ValueError")

\* C10: every Dependency a parser operation produces has depth 0 exactly
\* when it is direct-level (direct, dev or optional), so parse_manifest yields
\* only depth-0 non-transitive dependencies and no transitive one has depth 0.
C10_DepthZeroIffDirect ==
    (ppc = "returned" /\ presult.ok) =>
        \A i \in 1..Len(presult.deps) :
            (presult.deps[i].depth = 0)
                <=> (presult.deps[i].dependency_type # TRANSITIVE)

\* C11: every Dependency a parser operation produces has a non-negative
\* depth, whatever the shape of the keys of an npm lockfile's packages map.
C11_DepthNonNegative ==
    (ppc = "returned" /\ presult.ok) =>
        \A i \in 1..Len(presult.deps) : presult.deps[i].depth >= 0

\* The number of positions of a sequence that satisfy a test
CountOf(seq, Test(_)) == Cardinality({i \in 1..Len(seq) : Test(seq[i])})

\* The manifest formats that declare dependencies in more than one section
SectionedManifests ==
    {"package.json", "pyproject.toml", "Pipfile", "pom.xml", "build.gradle",
     "build.gradle.kts", "Cargo.toml", "Gemfile", "packages.config"}

\* Every entry of the file sits in a section its format has
WellSectioned(file) ==
    file.name \in SectionedManifests
        \/ \A i \in 1..Len(file.entries) : file.entries[i].section = "runtime"

\* C23: parse_manifest on a well-formed manifest of a supported name returns
\* exactly one Dependency per declared entry, typed by the declaring section:
\* runtime entries direct, development entries dev, optional entries optional.
C23_OnePerEntryTypedBySection ==
    (/\ ppc = "returned"
     /\ pop = "manifest"
     /\ pfile.state = "ok"
     /\ pfile.name \in ManifestNames(ppm)
     /\ WellSectioned(pfile))
        => /\ presult.ok
           /\ Len(presult.deps) = Len(pfile.entries)
           /\ \A n \in EntryNames, t \in {DIRECT, DEV, OPTIONAL} :
                 CountOf(presult.deps,
                         LAMBDA d : d.package.name = n /\ d.dependency_type = t)
                   = CountOf(pfile.entries,
                             LAMBDA e : e.name = n /\ TypeOf("section", e) = t)

\* C25: _parse_npm_dependencies_v2 yields one Dependency per key of the
\* packages map, in order, with depth one less than the key's count of
\* node_modules/ segments: a key with one segment is direct at depth 0, a
\* nested key is transitive at the depth of its nesting level.
C25_DepthFromSegments ==
    (/\ ppc = "returned"
     /\ pop = "lockfile"
     /\ ppm = "npm"
     /\ pfile.name = "package-lock.json"
     /\ pfile.state = "ok")
        => /\ presult.ok
           /\ Len(presult.deps) = Len(pfile.entries)
           /\ \A i \in 1..Len(pfile.entries) :
                 /\ presult.deps[i].package.name = pfile.entries[i].name
                 /\ presult.deps[i].depth = pfile.entries[i].nest
                 /\ (pfile.entries[i].nest = 0
                       => presult.deps[i].dependency_type = DIRECT)
                 /\ (pfile.entries[i].nest >= 1
                       => presult.deps[i].dependency_type = TRANSITIVE)

\* A packages map with an un-nested key and a nested one has been parsed
C25_Witness ==
    /\ ppc = "returned"
    /\ pop = "lockfile"
    /\ ppm = "npm"
    /\ pfile.name = "package-lock.json"
    /\ pfile.state = "ok"
    /\ \E i, j \in 1..Len(pfile.entries) :
          /\ pfile.entries[i].nest = 0
          /\ pfile.entries[j].nest = 1
          /\ presult.deps[i].dependency_type = DIRECT
          /\ presult.deps[j].depth = 1

\* C26: GoParser.parse_lockfile on a readable go.sum returns exactly one
\* Dependency per distinct module@version of its lines, however many lines
\* name it, and every returned Dependency is transitive.
C26_GoSumOnePerModule ==
    (/\ ppc = "returned"
     /\ pop = "lockfile"
     /\ ppm = "go_modules"
     /\ pfile.name = "go.sum"
     /\ pfile.state = "ok")
        => /\ presult.ok
           /\ \A i \in 1..Len(presult.deps) :
                 presult.deps[i].dependency_type = TRANSITIVE
           /\ \A n \in EntryNames :
                 CountOf(presult.deps, LAMBDA d : d.package.name = n)
                   = (IF \E i \in 1..Len(pfile.entries) :
                            pfile.entries[i].name = n
                      THEN 1 ELSE 0)

\* A go.sum holding two lines for the same module@version has been parsed
C26_Witness ==
    /\ ppc = "returned"
    /\ pop = "lockfile"
    /\ ppm = "go_modules"
    /\ pfile.name = "go.sum"
    /\ pfile.state = "ok"
    /\ Len(pfile.entries) = 2
    /\ pfile.entries[1].name = pfile.entries[2].name
    /\ presult.ok
    /\ Len(presult.deps) = 1

\* ------------------------------------------------------------------------
\* Specification SpecAdd: arbitrary add_package calls on an empty SBOM
\* ------------------------------------------------------------------------
\* (name, namespace): the first two render to the same PURL
AddIdentities == {<<"a", "x">>, <<"x/a", None>>, <<"a", None>>}
\* (package manager, language)
AddEcosystems == {<<"npm", "javascript">>, <<"npm", "typescript">>,
                  <<"pip", "python">>}
AddPackages ==
    {Package(id[1], "1", e[2], e[1], id[2]) :
        id \in AddIdentities, e \in AddEcosystems}
AddTypes == {DIRECT, TRANSITIVE, DEV}

AddInit == SBOMInit /\ ParseIdle /\ ResolveIdle /\ PipeIdle /\ AuxIdle

\* sbom.add_package(dependency.package, dependency), as every caller does
AddPackage ==
    /\ Len(dependencies) < MaxAdds
    /\ \E p \in AddPackages, t \in AddTypes :
          add_package(p, Dependency(p, t, None, IF t = TRANSITIVE THEN 1 ELSE 0))
    /\ UNCHANGED <<auxVars, parseVars, resolveVars, pipeVars>>

AddNext == AddPackage

SpecAdd == AddInit /\ [][AddNext]_vars

\* C1: after any sequence of add_package calls on an empty SBOM no two
\* records of sbom.packages have equal PURL, and an add whose PURL is already
\* present leaves the package list unchanged and appends only the edge.
C1_PurlUnique ==
    /\ \A i, j \in 1..Len(packages) :
          purl(packages[i]) = purl(packages[j]) => i = j
    /\ (lastAdd.called /\ lastAdd.existed) =>
          /\ packages = lastAdd.before
          /\ dependencies[Len(dependencies)] = lastAdd.dependency

\* C1 witness: a second record with an already present PURL was offered
C1_Witness ==
    /\ lastAdd.called
    /\ lastAdd.existed
    /\ lastAdd.package \notin Range(packages)

\* C2: after every add_package call the counters equal a recomputation from
\* the lists, and languages / package_managers are exactly the values that
\* occur in the package records.
C2_CountersFresh ==
    /\ total_packages = Cardinality(1..Len(packages))
    /\ direct_dependencies =
          Cardinality({i \in 1..Len(dependencies) :
                          dependencies[i].dependency_type = DIRECT})
    /\ transitive_dependencies =
          Cardinality({i \in 1..Len(dependencies) :
                          dependencies[i].dependency_type = TRANSITIVE})
    /\ languages = {packages[i].language : i \in 1..Len(packages)}
    /\ package_managers = {packages[i].package_manager : i \in 1..Len(packages)}

\* C2 witness: a deduplicated add of a record with another language, after
\* edges of several types
C2_Witness ==
    /\ lastAdd.called
    /\ lastAdd.existed
    /\ lastAdd.package.language \notin languages
    /\ direct_dependencies >= 1
    /\ transitive_dependencies >= 1
    /\ Len(dependencies) > direct_dependencies + transitive_dependencies

\* ------------------------------------------------------------------------
\* Specification Spec: SBOMGenerator.generate_sbom over a project directory
\*
\* The project is one directory holding at most MaxFiles of the files below.
\* The tasks handed to asyncio.gather interleave at their awaits; the
\* generator merges their results one after another once all have ended.
\* ------------------------------------------------------------------------

\* LanguageDetector.MANIFEST_PATTERNS, the rows for the files of the project
MANIFEST_PATTERNS ==
    {[name |-> "package.json", package_manager |-> "npm",
      manifest_type |-> "manifest", priority |-> 10],
     [name |-> "package-lock.json", package_manager |-> "npm",
      manifest_type |-> "lockfile", priority |-> 9],
     [name |-> "requirements.txt", package_manager |-> "pip",
      manifest_type |-> "manifest", priority |-> 8],
     [name |-> "pyproject.toml", package_manager |-> "poetry",
      manifest_type |-> "manifest", priority |-> 10],
     [name |-> "go.mod", package_manager |-> "go_modules",
      manifest_type |-> "manifest", priority |-> 10],
     [name |-> "go.sum", package_manager |-> "go_modules",
      manifest_type |-> "lockfile", priority |-> 9]}

\* The project's file names in the order of str(path)
PathOrder ==
    <<"go.mod", "go.sum", "package-lock.json", "package.json",
      "pyproject.toml", "requirements.lock", "requirements.txt">>

PathRank(name) == CHOOSE i \in 1..Len(PathOrder) : PathOrder[i] = name

\* _check_file taking every file for a manifest
check_file_every_file(name) ==
    IF \E m \in MANIFEST_PATTERNS : m.name = name
    THEN {m \in MANIFEST_PATTERNS : m.name = name}
    ELSE {[name |-> name, package_manager |-> "pip",
           manifest_type |-> "lockfile", priority |-> 1]}

\* LanguageDetector._check_file: the descriptor of a file, if it has one
check_file(name) == {m \in MANIFEST_PATTERNS : m.name = name}

\* the sort ignoring the path
manifest_before_priority_only(a, b) == a.priority > b.priority

\* the sort key of detect_manifests: (-priority, str(path))
manifest_before(a, b) ==
    \/ a.priority > b.priority
    \/ /\ a.priority = b.priority
       /\ PathRank(a.name) < PathRank(b.name)

\* The orders in which _walk_directory can visit the files
RECURSIVE WalkOrders(_)
WalkOrders(files) ==
    IF files = {} THEN {<<>>}
    ELSE UNION {{<<n>> \o w : w \in WalkOrders(files \ {n})} : n \in files}

\* LanguageDetector.detect_manifests: the descriptors of the files in the
\* order the walk visited them, then sorted by (-priority, str(path))
detect_manifests(walked) ==
    LET found == SelectSeq(walked, LAMBDA n : check_file(n) # {})
        descr == [i \in 1..Len(found) |-> CHOOSE m \in check_file(found[i]) : TRUE]
    IN SortSeq(descr, LAMBDA a, b : manifest_before(a, b))

\* SBOMGenerator._find_lockfile's table
lockfile_names(pm) ==
    IF pm = "npm" THEN <<"package-lock.json">>
    ELSE IF pm = "yarn" THEN <<"yarn.lock">>
    ELSE IF pm = "pnpm" THEN <<"pnpm-lock.yaml">>
    ELSE IF pm = "pip" THEN <<"requirements.lock", "pip.lock">>
    ELSE IF pm = "poetry" THEN <<"poetry.lock">>
    ELSE IF pm = "pipenv" THEN <<"Pipfile.lock">>
    ELSE IF pm = "conda" THEN <<"conda-lock.yml", "conda-lock.yaml">>
    ELSE IF pm = "maven" THEN <<"maven.lock">>
    ELSE IF pm = "gradle" THEN <<"gradle.lockfile">>
    ELSE IF pm = "go_modules" THEN <<"go.sum">>
    ELSE IF pm = "cargo" THEN <<"Cargo.lock">>
    ELSE IF pm = "bundler" THEN <<"Gemfile.lock">>
    ELSE <<>>

\* SBOMGenerator._find_lockfile: the first table name that exists next to
\* the manifest, or None
find_lockfile(pm, files) ==
    LET hits == SelectSeq(lockfile_names(pm), LAMBDA n : n \in files)
    IN IF hits = <<>> THEN None ELSE Head(hits)

\* The file 'name' of the project as the parsers see it
FileOf(name) ==
    [name |-> name, state |-> project[name].state,
     entries |-> project[name].entries]

\* The names JavaScriptParser.parse_lockfile reads from the sibling
\* package.json
sibling_direct_deps ==
    IF "package.json" \in DOMAIN project /\ project["package.json"].state = "ok"
    THEN {project["package.json"].entries[i].name :
            i \in 1..Len(project["package.json"].entries)}
    ELSE {}

\* What resolve_transitive_dependencies can return for the direct list: the
\* list itself for the parsers that return their argument, the list followed
\* by what the registry walk emitted for the others
resolve_outcomes(pm, direct) ==
    IF pm \notin JsManagers \cup PyManagers \/ direct = <<>>
    THEN {direct}
    ELSE {direct,
          direct \o <<Dependency(resolved_package(pm, "t"), TRANSITIVE,
                                 purl(direct[1].package), 1)>>}

\* asyncio.gather returning at the first failed task
gather_done_first_exception(ts) ==
    \/ \A t \in 1..Len(ts) : ts[t].pc \in {"done", "failed"}
    \/ \E t \in 1..Len(ts) : ts[t].pc = "failed"

\* asyncio.gather(*parse_tasks, return_exceptions=True) returns when every
\* task has ended
gather_done(ts) == \A t \in 1..Len(ts) : ts[t].pc \in {"done", "failed"}

ProjectFileNames == Range(PathOrder)

ManifestEntryAt(i) ==
    [name |-> IF i % 2 = 1 THEN "a" ELSE "@s/c",
     section |-> IF i = 1 THEN "runtime" ELSE IF i = 2 THEN "dev" ELSE "optional",
     nest |-> 0]

LockEntryAt(i) ==
    [name |-> IF i % 2 = 1 THEN "a" ELSE "@s/c",
     section |-> "runtime",
     nest |-> IF i = 1 THEN 0 ELSE 1]

IsLockName(name) ==
    name \in {"package-lock.json", "go.sum", "requirements.lock"}

\* how many entries a well-formed project file holds
EntryCounts == {1, 2}

\* The contents a project file can have: k well-formed entries, or text
\* that does not decode
FileContents(name) ==
    {[state |-> "malformed", entries |-> <<>>]}
        \cup {[state |-> "ok",
               entries |-> [i \in 1..k |-> IF IsLockName(name)
                                           THEN LockEntryAt(i)
                                           ELSE ManifestEntryAt(i)]] :
                k \in EntryCounts}

Init ==
    /\ SBOMInit
    /\ AuxIdle
    /\ ParseIdle
    /\ ResolveIdle
    /\ \E S \in SUBSET ProjectFileNames :
         /\ Cardinality(S) <= MaxFiles
         /\ project \in {f \in [S -> UNION {FileContents(n) : n \in S}] :
                            \A n \in S : f[n] \in FileContents(n)}
    /\ include_transitive \in BOOLEAN
    /\ manifests = <<>>
    /\ tasks = <<>>
    /\ gpc = "detect"
    /\ mi = 0
    /\ mj = 0

NewTask == [pc |-> "start", deps |-> <<>>, calls |-> <<>>, error |-> None]

\* detect_manifests found nothing: the empty SBOM is returned
GenerateEmpty ==
    /\ gpc = "detect"
    /\ \E walked \in WalkOrders(DOMAIN project) :
         detect_manifests(walked) = <<>>
    /\ gpc' = "returned"
    /\ UNCHANGED <<auxVars, sbomVars, parseVars, resolveVars, project,
                   include_transitive, manifests, tasks, mi, mj>>

\* one parse task per descriptor (every package manager has a parser),
\* handed to asyncio.gather
GenerateStart ==
    /\ gpc = "detect"
    /\ \E walked \in WalkOrders(DOMAIN project) :
         /\ detect_manifests(walked) # <<>>
         /\ manifests' = detect_manifests(walked)
    /\ tasks' = [t \in 1..Len(manifests') |-> NewTask]
    /\ gpc' = "gather"
    /\ UNCHANGED <<auxVars, sbomVars, parseVars, resolveVars, project,
                   include_transitive, mi, mj>>

\* the task's outcome after a parser call: its list, or the exception that
\* _parse_manifest logs and raises again (deps then keeps what the local
\* list held when the call raised)
Ended(task, call, result, deps) ==
    IF result.ok
    THEN [task EXCEPT !.pc = "done", !.deps = deps,
                      !.calls = Append(@, call)]
    ELSE [task EXCEPT !.pc = "failed", !.calls = Append(@, call),
                      !.error = result.error]

\* _parse_manifest, lockfile role: await parser.parse_lockfile(manifest.path)
TaskParseLockfileRole ==
    \E t \in 1..Len(tasks) :
      /\ gpc = "gather"
      /\ tasks[t].pc = "start"
      /\ manifests[t].manifest_type = "lockfile"
      /\ LET result == parse_lockfile(manifests[t].package_manager,
                                      FileOf(manifests[t].name),
                                      sibling_direct_deps)
         IN tasks' = [tasks EXCEPT ![t] =
                        Ended(@, "parse_lockfile", result, result.deps)]
      /\ UNCHANGED <<auxVars, sbomVars, parseVars, resolveVars, project,
                     include_transitive, manifests, gpc, mi, mj>>

\* _parse_manifest, any other role: await parser.parse_manifest(manifest.path),
\* then the choice of what follows
TaskParseManifest ==
    \E t \in 1..Len(tasks) :
      /\ gpc = "gather"
      /\ tasks[t].pc = "start"
      /\ manifests[t].manifest_type # "lockfile"
      /\ LET pm == manifests[t].package_manager
             result == parse_manifest(pm, FileOf(manifests[t].name))
         IN tasks' = [tasks EXCEPT ![t] =
              IF ~result.ok \/ ~include_transitive
              THEN Ended(@, "parse_manifest", result, result.deps)
              ELSE [@ EXCEPT
                      !.pc = IF find_lockfile(pm, DOMAIN project) # None
                             THEN "lockfile" ELSE "resolve",
                      !.deps = result.deps,
                      !.calls = Append(@, "parse_manifest")]]
      /\ UNCHANGED <<auxVars, sbomVars, parseVars, resolveVars, project,
                     include_transitive, manifests, gpc, mi, mj>>

\* lockfile_deps = await parser.parse_lockfile(lockfile_path);
\* dependencies.extend(lockfile_deps)
TaskParseFoundLockfile ==
    \E t \in 1..Len(tasks) :
      /\ gpc = "gather"
      /\ tasks[t].pc = "lockfile"
      /\ LET pm == manifests[t].package_manager
             result == parse_lockfile(pm,
                                      FileOf(find_lockfile(pm, DOMAIN project)),
                                      sibling_direct_deps)
         IN tasks' = [tasks EXCEPT ![t] =
                        Ended(@, "parse_lockfile", result,
                              tasks[t].deps \o result.deps)]
      /\ UNCHANGED <<auxVars, sbomVars, parseVars, resolveVars, project,
                     include_transitive, manifests, gpc, mi, mj>>

\* dependencies = await parser.resolve_transitive_dependencies(dependencies)
TaskResolve ==
    \E t \in 1..Len(tasks) :
      /\ gpc = "gather"
      /\ tasks[t].pc = "resolve"
      /\ \E all \in resolve_outcomes(manifests[t].package_manager, tasks[t].deps) :
           tasks' = [tasks EXCEPT ![t] =
                       Ended(@, "resolve_transitive_dependencies", Ok(all), all)]
      /\ UNCHANGED <<auxVars, sbomVars, parseVars, resolveVars, project,
                     include_transitive, manifests, gpc, mi, mj>>

\* results = await asyncio.gather(...)
Join ==
    /\ gpc = "gather"
    /\ gather_done(tasks)
    /\ gpc' = "merge"
    /\ mi' = 1
    /\ mj' = 1
    /\ UNCHANGED <<auxVars, sbomVars, parseVars, resolveVars, project,
                   include_transitive, manifests, tasks>>

\* if isinstance(result, Exception): continue
MergeSkipFailed ==
    /\ gpc = "merge"
    /\ mi <= Len(tasks)
    /\ tasks[mi].pc = "failed"
    /\ mi' = mi + 1
    /\ mj' = 1
    /\ UNCHANGED <<auxVars, sbomVars, parseVars, resolveVars, project,
                   include_transitive, manifests, tasks, gpc>>

\* sbom.add_package(dependency.package, dependency)
MergeDependency ==
    /\ gpc = "merge"
    /\ mi <= Len(tasks)
    /\ tasks[mi].pc = "done"
    /\ mj <= Len(tasks[mi].deps)
    /\ add_package(tasks[mi].deps[mj].package, tasks[mi].deps[mj])
    /\ mj' = mj + 1
    /\ UNCHANGED <<auxVars, parseVars, resolveVars, project, include_transitive,
                   manifests, tasks, gpc, mi>>

\* the result's list is exhausted: the next result
MergeNextResult ==
    /\ gpc = "merge"
    /\ mi <= Len(tasks)
    /\ tasks[mi].pc = "done"
    /\ mj > Len(tasks[mi].deps)
    /\ mi' = mi + 1
    /\ mj' = 1
    /\ UNCHANGED <<auxVars, sbomVars, parseVars, resolveVars, project,
                   include_transitive, manifests, tasks, gpc>>

\* return sbom
GenerateReturn ==
    /\ gpc = "merge"
    /\ mi > Len(tasks)
    /\ gpc' = "returned"
    /\ UNCHANGED <<auxVars, sbomVars, parseVars, resolveVars, project,
                   include_transitive, manifests, tasks, mi, mj>>

Next ==
    \/ GenerateEmpty
    \/ GenerateStart
    \/ TaskParseLockfileRole
    \/ TaskParseManifest
    \/ TaskParseFoundLockfile
    \/ TaskResolve
    \/ Join
    \/ MergeSkipFailed
    \/ MergeDependency
    \/ MergeNextResult
    \/ GenerateReturn

Spec == Init /\ [][Next]_vars

\* what the tasks 1..k that succeeded returned, one task after another
RECURSIVE MergedUpTo(_)
MergedUpTo(k) ==
    IF k = 0 THEN <<>>
    ELSE MergedUpTo(k - 1)
            \o (IF tasks[k].pc = "done" THEN tasks[k].deps ELSE <<>>)

\* the table names that exist next to a manifest of package manager pm
CoLocated(pm) == SelectSeq(lockfile_names(pm), LAMBDA n : n \in DOMAIN project)

\* C3: the parse tasks all run to their end before anything is merged, a
\* failed task stops neither the scan nor another task, and the SBOM holds
\* exactly what the tasks that succeeded returned, merged one task after
\* another, and nothing a failed task had parsed.
C3_JoinedThenMerged ==
    /\ gpc \in {"detect", "gather"} => dependencies = <<>> /\ packages = <<>>
    /\ gpc \in {"merge", "returned"} =>
          /\ Len(tasks) = Len(manifests)
          /\ \A t \in 1..Len(tasks) : tasks[t].pc \in {"done", "failed"}
    /\ gpc = "merge" /\ mi <= Len(tasks) =>
          dependencies =
              MergedUpTo(mi - 1)
                 \o (IF tasks[mi].pc = "done"
                     THEN SubSeq(tasks[mi].deps, 1, mj - 1) ELSE <<>>)
    /\ gpc = "returned" =>
          /\ dependencies = MergedUpTo(Len(tasks))
          /\ {purl(packages[i]) : i \in 1..Len(packages)}
                = {purl(dependencies[i].package) : i \in 1..Len(dependencies)}

C3_Witness ==
    /\ gpc = "returned"
    /\ dependencies # <<>>
    /\ \E t1, t2 \in 1..Len(tasks) :
          /\ t1 < t2
          /\ tasks[t1].pc = "failed"
          /\ tasks[t1].deps # <<>>
          /\ tasks[t2].pc = "done"
          /\ tasks[t2].deps # <<>>

\* C4: with include_transitive set, a lockfile-role descriptor is parsed
\* with parse_lockfile only; a manifest-role descriptor is parsed with
\* parse_manifest and then either its co-located lockfile from the table is
\* parsed and its entries follow the direct ones in the task's result,
\* without the resolver, or, when there is none, the resolver is invoked
\* exactly once on the direct dependencies.
C4_OneOfLockfileOrResolver ==
    include_transitive =>
        \A t \in 1..Len(tasks) :
            tasks[t].pc \in {"done", "failed"} =>
                LET pm == manifests[t].package_manager
                    direct == parse_manifest(pm, FileOf(manifests[t].name))
                IN IF manifests[t].manifest_type = "lockfile"
                   THEN tasks[t].calls = <<"parse_lockfile">>
                   ELSE IF CoLocated(pm) # <<>>
                   THEN /\ tasks[t].calls = <<"parse_manifest", "parse_lockfile">>
                        /\ tasks[t].pc = "done"
                        /\ tasks[t].deps =
                              direct.deps
                                 \o parse_lockfile(pm,
                                                   FileOf(Head(CoLocated(pm))),
                                                   sibling_direct_deps).deps
                   ELSE /\ tasks[t].calls =
                              <<"parse_manifest",
                                "resolve_transitive_dependencies">>
                        /\ tasks[t].pc = "done"
                        /\ tasks[t].deps \in resolve_outcomes(pm, direct.deps)

\* What task t returns as a function of the project, the flag and the
\* registry's reply (the reply is what the resolver handed the task)
TaskOutcome(t) ==
    LET pm == manifests[t].package_manager
        direct == parse_manifest(pm, FileOf(manifests[t].name))
        locked == parse_lockfile(pm, FileOf(Head(CoLocated(pm))),
                                 sibling_direct_deps)
    IN IF manifests[t].manifest_type = "lockfile"
       THEN parse_lockfile(pm, FileOf(manifests[t].name), sibling_direct_deps)
       ELSE IF ~direct.ok \/ ~include_transitive THEN direct
       ELSE IF CoLocated(pm) # <<>>
       THEN (IF locked.ok THEN Ok(direct.deps \o locked.deps) ELSE locked)
       ELSE Ok(tasks[t].deps)

\* the dependencies the tasks 1..k contribute, by TaskOutcome
RECURSIVE OutcomesUpTo(_)
OutcomesUpTo(k) ==
    IF k = 0 THEN <<>>
    ELSE OutcomesUpTo(k - 1)
            \o (IF TaskOutcome(k).ok THEN TaskOutcome(k).deps ELSE <<>>)

\* the package records add_package keeps for a list of dependencies: the
\* first record of every PURL, in order
RECURSIVE PackagesOf(_)
PackagesOf(deps) ==
    IF deps = <<>> THEN <<>>
    ELSE LET front == PackagesOf(SubSeq(deps, 1, Len(deps) - 1))
             last == deps[Len(deps)].package
         IN IF \E i \in 1..Len(front) : purl(front[i]) = purl(last)
            THEN front ELSE Append(front, last)

\* C12: a scan is a function of the project, the flag and the registry's
\* replies: whatever order the walk visits the files in, detect_manifests
\* returns the descriptors of the project's files by descending priority,
\* then path, and the returned SBOM's packages and total, direct and
\* transitive counts are those of the tasks' outcomes taken in that order.
C12_ScanDeterministic ==
    /\ gpc \in {"gather", "merge", "returned"} =>
          /\ \A i \in 1..Len(manifests) : manifests[i] \in MANIFEST_PATTERNS
          /\ {manifests[i].name : i \in 1..Len(manifests)}
                = {n \in DOMAIN project : check_file(n) # {}}
          /\ \A i, j \in 1..Len(manifests) :
                i < j =>
                   \/ manifests[i].priority > manifests[j].priority
                   \/ /\ manifests[i].priority = manifests[j].priority
                      /\ PathRank(manifests[i].name) < PathRank(manifests[j].name)
    /\ gpc = "returned" =>
          LET deps == OutcomesUpTo(Len(manifests))
          IN /\ dependencies = deps
             /\ packages = PackagesOf(deps)
             /\ total_packages = Len(PackagesOf(deps))
             /\ direct_dependencies =
                   Len(SelectSeq(deps, LAMBDA d : d.dependency_type = DIRECT))
             /\ transitive_dependencies =
                   Len(SelectSeq(deps, LAMBDA d : d.dependency_type = TRANSITIVE))

C12_Witness ==
    /\ gpc = "returned"
    /\ Len(manifests) >= 3
    /\ manifests[1].priority = manifests[2].priority
    /\ manifests[2].priority > manifests[3].priority
    /\ Len(packages) >= 2
    /\ Len(packages) < Len(dependencies)

\* C13: generate_sbom on a directory without a recognised manifest, the
\* empty directory included, starts no task and returns an SBOM with no
\* package, no dependency edge and every counter zero.
C13_EmptyProjectEmptySBOM ==
    (\A n \in DOMAIN project : \A m \in MANIFEST_PATTERNS : m.name # n) =>
        /\ gpc \in {"detect", "returned"}
        /\ tasks = <<>>
        /\ packages = <<>>
        /\ dependencies = <<>>
        /\ total_packages = 0
        /\ direct_dependencies = 0
        /\ transitive_dependencies = 0
        /\ languages = {}
        /\ package_managers = {}

C13_Witness ==
    /\ gpc = "returned"
    /\ DOMAIN project # {}
    /\ \A n \in DOMAIN project : \A m \in MANIFEST_PATTERNS : m.name # n
    /\ total_packages = 0

\* C27: when a manifest parses and its co-located lockfile does not decode,
\* the manifest's task still ends normally and every direct dependency the
\* manifest declares is in the returned SBOM.
C27_MalformedLockfileKeepsDirect ==
    gpc = "returned" =>
        \A t \in 1..Len(manifests) :
            LET pm == manifests[t].package_manager
                direct == parse_manifest(pm, FileOf(manifests[t].name))
            IN (/\ manifests[t].manifest_type # "lockfile"
                /\ direct.ok
                /\ CoLocated(pm) # <<>>
                /\ project[Head(CoLocated(pm))].state = "malformed")
                  => /\ tasks[t].pc = "done"
                     /\ \A i \in 1..Len(direct.deps) :
                           \E j \in 1..Len(dependencies) :
                               dependencies[j] = direct.deps[i]

\* the direct dependencies the manifests 1..k of the project declare, as
\* parse_manifest reads them
RECURSIVE DeclaredDirectUpTo(_)
DeclaredDirectUpTo(k) ==
    IF k = 0 THEN 0
    ELSE LET pm == manifests[k].package_manager
             direct == parse_manifest(pm, FileOf(manifests[k].name))
         IN DeclaredDirectUpTo(k - 1)
              + (IF manifests[k].manifest_type # "lockfile" /\ direct.ok
                 THEN CountOf(direct.deps, LAMBDA d : d.dependency_type = DIRECT)
                 ELSE 0)

\* C28: the returned SBOM's direct_dependencies is the number of direct
\* dependencies the project's manifests declare, each counted once, with
\* or without lockfiles next to the manifests.
C28_DirectCountIsDeclared ==
    gpc = "returned" => direct_dependencies = DeclaredDirectUpTo(Len(manifests))

\* C29: a scan with include_transitive false returns an SBOM without any
\* dependency typed transitive, transitive_dependencies is 0, and no task
\* called the registry resolver.
C29_NoTransitiveWhenDisabled ==
    (gpc = "returned" /\ ~include_transitive) =>
        /\ transitive_dependencies = 0
        /\ \A i \in 1..Len(dependencies) :
              dependencies[i].dependency_type # TRANSITIVE
        /\ \A t \in 1..Len(tasks) :
              \A c \in 1..Len(tasks[t].calls) :
                  tasks[t].calls[c] # "resolve_transitive_dependencies"

\* ------------------------------------------------------------------------
\* SupplyChainIntelligence.calculate_supply_chain_risk
\*
\* risk_score is a Python float built from 0.0 by adding 2.0, 1.5, 2.5, 4.0
\* and 1.0: every partial sum is a multiple of 0.5 below 2^53, so the float
\* arithmetic is exact.  The model keeps the score in tenths (9.5 is 95).

\* the messages appended to risk_factors, in the order of the checks
risk_factors(i) ==
    (IF i.is_very_new THEN <<"Package is less than 30 days old">> ELSE <<>>)
    \o (IF i.low_download_count THEN <<"Low download count (< 1000/week)">> ELSE <<>>)
    \o (IF i.suspicious_name THEN <<"Suspicious naming pattern detected">> ELSE <<>>)
    \o (IF i.potential_typosquat THEN <<"Potential typosquatting attempt">> ELSE <<>>)
    \o (IF Len(i.maintainers) = 0
        THEN <<"No maintainer information available">> ELSE <<>>)
    \o (IF DOMAIN i.project_urls = {}
        THEN <<"No project repository or homepage">> ELSE <<>>)

recommendations(i) ==
    (IF i.potential_typosquat
     THEN <<"Verify package name spelling - may be typosquatting">> ELSE <<>>)
    \o (IF i.is_very_new
        THEN <<"Consider using more established package versions">> ELSE <<>>)
    \o (IF i.low_download_count
        THEN <<"Review if this package is still maintained">> ELSE <<>>)
    \o (IF DOMAIN i.project_urls = {}
        THEN <<"Verify package authenticity through other channels">> ELSE <<>>)

\* the same function with the score capped at the documented maximum
calculate_supply_chain_risk_capped(i) ==
    LET s1 == IF i.is_very_new THEN 20 ELSE 0
        s2 == s1 + (IF i.low_download_count THEN 15 ELSE 0)
        s3 == s2 + (IF i.suspicious_name THEN 25 ELSE 0)
        s4 == s3 + (IF i.potential_typosquat THEN 40 ELSE 0)
        s5 == s4 + (IF Len(i.maintainers) = 0 THEN 10 ELSE 0)
        s6 == s5 + (IF DOMAIN i.project_urls = {} THEN 10 ELSE 0)
        risk_score == IF s6 > 100 THEN 100 ELSE s6
        risk_level == IF risk_score >= 60 THEN "critical"
                      ELSE IF risk_score >= 40 THEN "high"
                      ELSE IF risk_score >= 20 THEN "medium"
                      ELSE "low"
    IN [package_name |-> i.package_name, risk_level |-> risk_level,
        risk_score |-> risk_score, risk_factors |-> risk_factors(i),
        recommendations |-> recommendations(i)]

calculate_supply_chain_risk(i) ==
    LET s1 == IF i.is_very_new THEN 20 ELSE 0
        s2 == s1 + (IF i.low_download_count THEN 15 ELSE 0)
        s3 == s2 + (IF i.suspicious_name THEN 25 ELSE 0)
        s4 == s3 + (IF i.potential_typosquat THEN 40 ELSE 0)
        s5 == s4 + (IF Len(i.maintainers) = 0 THEN 10 ELSE 0)
        risk_score == s5 + (IF DOMAIN i.project_urls = {} THEN 10 ELSE 0)
        risk_level == IF risk_score >= 60 THEN "critical"
                      ELSE IF risk_score >= 40 THEN "high"
                      ELSE IF risk_score >= 20 THEN "medium"
                      ELSE "low"
    IN [package_name |-> i.package_name, risk_level |-> risk_level,
        risk_score |-> risk_score, risk_factors |-> risk_factors(i),
        recommendations |-> recommendations(i)]

\* PackageIntelligence records a caller can hand in
IntelNames == {"left-pad", "reqeusts"}
IntelMaintainers == {<<>>, <<"alice">>, <<"alice", "bob">>}
IntelProjectUrls == {<<>>, [repository |-> "https://example.org/repo"]}

PackageIntelligence ==
    [package_name : IntelNames,
     is_very_new : BOOLEAN, low_download_count : BOOLEAN,
     suspicious_name : BOOLEAN, potential_typosquat : BOOLEAN,
     maintainers : IntelMaintainers, project_urls : IntelProjectUrls]

RiskInit ==
    /\ SBOMInit
    /\ ParseIdle
    /\ ResolveIdle
    /\ PipeIdle
    /\ NameIdle
    /\ ParIdle
    /\ ExtIdle
    /\ intel \in PackageIntelligence
    /\ risk = None
    /\ kpc = "call"

CalculateRisk ==
    /\ kpc = "call"
    /\ risk' = calculate_supply_chain_risk(intel)
    /\ kpc' = "returned"
    /\ UNCHANGED <<extVars, sbomVars, parseVars, resolveVars, pipeVars, nameVars, parVars,
                   intel>>

RiskNext == CalculateRisk

SpecRisk == RiskInit /\ [][RiskNext]_vars

\* the six signals and what each adds, in tenths
Signals ==
    {"very_new", "low_downloads", "suspicious_name", "typosquat",
     "no_maintainers", "no_project_urls"}

SignalWeight ==
    [very_new |-> 20, low_downloads |-> 15, suspicious_name |-> 25,
     typosquat |-> 40, no_maintainers |-> 10, no_project_urls |-> 10]

Fired(i) ==
    {g \in Signals :
        \/ g = "very_new" /\ i.is_very_new
        \/ g = "low_downloads" /\ i.low_download_count
        \/ g = "suspicious_name" /\ i.suspicious_name
        \/ g = "typosquat" /\ i.potential_typosquat
        \/ g = "no_maintainers" /\ i.maintainers = <<>>
        \/ g = "no_project_urls" /\ DOMAIN i.project_urls = {}}

RECURSIVE WeightSum(_)
WeightSum(S) ==
    IF S = {} THEN 0
    ELSE LET g == CHOOSE x \in S : TRUE
         IN SignalWeight[g] + WeightSum(S \ {g})

LevelOf(score) ==
    CASE score >= 60 -> "critical"
      [] score < 60 /\ score >= 40 -> "high"
      [] score < 40 /\ score >= 20 -> "medium"
      [] OTHER -> "low"

C15_ScoreInRange ==
    kpc = "returned" => (risk.risk_score >= 0 /\ risk.risk_score <= 100)

\* ------------------------------------------------------------------------
\* The name heuristics of SupplyChainIntelligence
\*
\* A name is the sequence of its characters, each a one-character string.

UpperCase ==
    <<"A", "B", "C", "D", "E", "F", "G", "H", "I", "J", "K", "L", "M",
      "N", "O", "P", "Q", "R", "S", "T", "U", "V", "W", "X", "Y", "Z">>

LowerCase ==
    <<"a", "b", "c", "d", "e", "f", "g", "h", "i", "j", "k", "l", "m",
      "n", "o", "p", "q", "r", "s", "t", "u", "v", "w", "x", "y", "z">>

Digits == {"0", "1", "2", "3", "4", "5", "6", "7", "8", "9"}

\* str.lower() on one character and on a name
LowerOf ==
    [c \in Range(UpperCase) |->
        LowerCase[CHOOSE u \in 1..Len(UpperCase) : UpperCase[u] = c]]

lower(name) ==
    [k \in 1..Len(name) |->
        IF name[k] \in DOMAIN LowerOf THEN LowerOf[name[k]] ELSE name[k]]

\* self.popular_packages
popular_packages ==
    [pip |-> <<
        <<"r", "e", "q", "u", "e", "s", "t", "s">>,
        <<"u", "r", "l", "l", "i", "b", "3">>,
        <<"s", "e", "t", "u", "p", "t", "o", "o", "l", "s">>,
        <<"c", "e", "r", "t", "i", "f", "i">>,
        <<"p", "i", "p">>,
        <<"w", "h", "e", "e", "l">>,
        <<"s", "i", "x">>,
        <<"p", "y", "t", "h", "o", "n", "-", "d", "a", "t", "e", "u", "t", "i", "l">>,
        <<"s", "3", "t", "r", "a", "n", "s", "f", "e", "r">>,
        <<"j", "m", "e", "s", "p", "a", "t", "h">>,
        <<"d", "o", "c", "u", "t", "i", "l", "s">>,
        <<"p", "y", "t", "z">>,
        <<"p", "y", "y", "a", "m", "l">>,
        <<"r", "s", "a">>,
        <<"a", "w", "s", "c", "l", "i">>,
        <<"b", "o", "t", "o", "3">>,
        <<"n", "u", "m", "p", "y">>,
        <<"c", "l", "i", "c", "k">>,
        <<"c", "o", "l", "o", "r", "a", "m", "a">>,
        <<"p", "a", "c", "k", "a", "g", "i", "n", "g">>,
        <<"p", "y", "p", "a", "r", "s", "i", "n", "g">>,
        <<"a", "t", "t", "r", "s">>,
        <<"j", "s", "o", "n", "s", "c", "h", "e", "m", "a">>,
        <<"p", "y", "c", "p", "a", "r", "s", "e", "r">>,
        <<"c", "f", "f", "i">>,
        <<"c", "r", "y", "p", "t", "o", "g", "r", "a", "p", "h", "y">>,
        <<"i", "d", "n", "a">>,
        <<"c", "h", "a", "r", "s", "e", "t", "-", "n", "o", "r", "m", "a", "l", "i", "z", "e", "r">>>>,
     npm |-> <<
        <<"l", "o", "d", "a", "s", "h">>,
        <<"r", "e", "a", "c", "t">>,
        <<"c", "h", "a", "l", "k">>,
        <<"c", "o", "m", "m", "a", "n", "d", "e", "r">>,
        <<"e", "x", "p", "r", "e", "s", "s">>,
        <<"d", "e", "b", "u", "g">>,
        <<"m", "k", "d", "i", "r", "p">>,
        <<"c", "l", "a", "s", "s", "n", "a", "m", "e", "s">>,
        <<"p", "r", "o", "p", "-", "t", "y", "p", "e", "s">>,
        <<"m", "o", "m", "e", "n", "t">>,
        <<"r", "e", "q", "u", "e", "s", "t">>,
        <<"u", "n", "d", "e", "r", "s", "c", "o", "r", "e">>,
        <<"a", "s", "y", "n", "c">>,
        <<"c", "o", "l", "o", "r", "s">>,
        <<"m", "i", "n", "i", "m", "i", "s", "t">>,
        <<"f", "s", "-", "e", "x", "t", "r", "a">>,
        <<"s", "e", "m", "v", "e", "r">>,
        <<"g", "l", "o", "b">>,
        <<"y", "a", "r", "g", "s">>,
        <<"a", "x", "i", "o", "s">>,
        <<"j", "q", "u", "e", "r", "y">>,
        <<"w", "e", "b", "p", "a", "c", "k">>,
        <<"b", "a", "b", "e", "l", "-", "c", "o", "r", "e">>,
        <<"t", "y", "p", "e", "s", "c", "r", "i", "p", "t">>,
        <<"e", "s", "l", "i", "n", "t">>,
        <<"j", "e", "s", "t">>,
        <<"m", "o", "c", "h", "a">>>>]

Min3(x, y, z) == IF x <= y /\ x <= z THEN x ELSE IF y <= z THEN y ELSE z

\* the inner loop of _levenshtein_distance: distances_ grows by one cell for
\* each character of s1
RECURSIVE levenshtein_row(_, _, _, _)
levenshtein_row(s1, c2, distances, distances_) ==
    LET i1 == Len(distances_)
    IN IF i1 > Len(s1) THEN distances_
       ELSE levenshtein_row(s1, c2, distances,
                Append(distances_,
                    IF s1[i1] = c2
                    THEN distances[i1]
                    ELSE 1 + Min3(distances[i1], distances[i1 + 1],
                                  distances_[Len(distances_)])))

\* the outer loop: one row for each character of s2; the row is complete
\* when it replaces distances
RECURSIVE levenshtein_rows(_, _, _, _)
levenshtein_rows(s1, s2, distances, i2) ==
    IF i2 > Len(s2) THEN distances
    ELSE LET distances_ == levenshtein_row(s1, s2[i2], distances, <<i2>>)
         IN CASE Len(distances_) = Len(s1) + 1 ->
                    levenshtein_rows(s1, s2, distances_, i2 + 1)

levenshtein_distance(a, b) ==
    LET s1 == IF Len(a) > Len(b) THEN b ELSE a
        s2 == IF Len(a) > Len(b) THEN a ELSE b
        distances == levenshtein_rows(s1, s2, [k \in 1..(Len(s1) + 1) |-> k - 1], 1)
    IN distances[Len(distances)]

\* the same check flagging only names one edit away
check_typosquatting_one_edit(package_name, ecosystem) ==
    /\ ecosystem \in DOMAIN popular_packages
    /\ \E k \in 1..Len(popular_packages[ecosystem]) :
         LET popular == popular_packages[ecosystem][k]
             distance == levenshtein_distance(lower(package_name), lower(popular))
         IN 1 <= distance /\ distance <= 1 /\ lower(package_name) # lower(popular)

check_typosquatting(package_name, ecosystem) ==
    /\ ecosystem \in DOMAIN popular_packages
    /\ \E k \in 1..Len(popular_packages[ecosystem]) :
         LET popular == popular_packages[ecosystem][k]
             distance == levenshtein_distance(lower(package_name), lower(popular))
         IN 1 <= distance /\ distance <= 2 /\ lower(package_name) # lower(popular)

\* re.match(r".*<word>.*", name, re.IGNORECASE)
Contains(name, word) ==
    \E i \in 1..(Len(name) - Len(word) + 1) :
        SubSeq(lower(name), i, i + Len(word) - 1) = word

\* re.match(r"[0-9]+$", name): re.match anchors the pattern at the start of
\* the name, so the run of digits begins at the first character
OnlyDigits(name) ==
    \E k \in 1..Len(name) :
        /\ \A i \in 1..k : name[i] \in Digits
        /\ k = Len(name)

UtilityWords ==
    {<<"u", "t", "i", "l">>, <<"u", "t", "i", "l", "s">>,
     <<"h", "e", "l", "p", "e", "r">>, <<"h", "e", "l", "p", "e", "r", "s">>,
     <<"t", "o", "o", "l">>, <<"t", "o", "o", "l", "s">>}

Separators == {"_", "-"}

\* re.match(r".*[_-](utils?|helpers?|tools?)$", name, re.IGNORECASE)
UtilitySuffix(name) ==
    \E w \in UtilityWords :
        /\ Len(name) >= Len(w) + 1
        /\ name[Len(name) - Len(w)] \in Separators
        /\ SubSeq(lower(name), Len(name) - Len(w) + 1, Len(name)) = w

\* re.match(r"^[a-z]{1,3}$", name, re.IGNORECASE)
VeryShort(name) ==
    /\ Len(name) >= 1
    /\ Len(name) <= 3
    /\ \A i \in 1..Len(name) : lower(name)[i] \in Range(LowerCase)

\* re.match(r".*[_-]v?[0-9]+[_-].*", name, re.IGNORECASE)
VersionToken(name) ==
    \E i \in 1..Len(name), j \in 1..Len(name) :
        /\ name[i] \in Separators
        /\ name[j] \in Separators
        /\ LET first == IF i + 1 < j /\ lower(name)[i + 1] = "v" THEN i + 2 ELSE i + 1
           IN \/ /\ first <= j - 1
                 /\ \A k \in first..(j - 1) : name[k] \in Digits
              \/ /\ i + 1 <= j - 1
                 /\ \A k \in (i + 1)..(j - 1) : name[k] \in Digits

check_suspicious_name(package_name) ==
    \/ Contains(package_name, <<"t", "e", "s", "t">>)
    \/ Contains(package_name, <<"t", "e", "m", "p">>)
    \/ Contains(package_name, <<"d", "e", "b", "u", "g">>)
    \/ OnlyDigits(package_name)
    \/ UtilitySuffix(package_name)
    \/ VeryShort(package_name)
    \/ VersionToken(package_name)

\* Names handed to _check_typosquatting: every short name over a few
\* characters, and the two spellings of "requests"
NameChars == {"p", "i", "s", "x", "P"}
Reqeusts == <<"r", "e", "q", "e", "u", "s", "t", "s">>
Requests == <<"r", "e", "q", "u", "e", "s", "t", "s">>
TypoNames == BoundedSeq(NameChars, MaxNameLen) \cup {Reqeusts, Requests}
Ecosystems == {"pip", "npm", "conda"}

\* Strings handed to _levenshtein_distance
DistanceChars == {"p", "i", "s"}
DistanceStrings == BoundedSeq(DistanceChars, MaxNameLen)

\* Names handed to _check_suspicious_name: fragments put one after another
NameParts ==
    {<<"T", "e", "s", "t">>, <<"t", "e", "m", "p">>, <<"d", "e", "b", "u", "g">>,
     <<"u", "t", "i", "l">>, <<"h", "e", "l", "p", "e", "r">>, <<"t", "o", "o", "l">>,
     <<"s">>, <<"-">>, <<"_">>, <<"v">>, <<"2">>, <<"a", "B">>}

RECURSIVE Flatten(_)
Flatten(parts) ==
    IF parts = <<>> THEN <<>> ELSE Head(parts) \o Flatten(Tail(parts))

PartNames == {Flatten(q) : q \in BoundedSeq(NameParts, MaxParts)}

NamesInit ==
    /\ SBOMInit
    /\ ParseIdle
    /\ ResolveIdle
    /\ PipeIdle
    /\ RiskIdle
    /\ ParIdle
    /\ ExtIdle
    /\ \/ /\ nop = "_check_suspicious_name"
          /\ nargs \in [package_name : PartNames]
       \/ /\ nop = "_check_typosquatting"
          /\ nargs \in [package_name : TypoNames, ecosystem : Ecosystems]
       \/ /\ nop = "_levenshtein_distance"
          /\ \/ nargs \in [s1 : DistanceStrings, s2 : DistanceStrings]
             \/ nargs \in [s1 : {Reqeusts, Requests}, s2 : {Reqeusts, Requests}]
    /\ nresult = None
    /\ npc = "call"

CallCheckSuspiciousName ==
    /\ npc = "call"
    /\ nop = "_check_suspicious_name"
    /\ nresult' = check_suspicious_name(nargs.package_name)
    /\ npc' = "returned"
    /\ UNCHANGED <<extVars, sbomVars, parseVars, resolveVars, pipeVars, riskVars, parVars,
                   nop, nargs>>

CallCheckTyposquatting ==
    /\ npc = "call"
    /\ nop = "_check_typosquatting"
    /\ nresult' = check_typosquatting(nargs.package_name, nargs.ecosystem)
    /\ npc' = "returned"
    /\ UNCHANGED <<extVars, sbomVars, parseVars, resolveVars, pipeVars, riskVars, parVars,
                   nop, nargs>>

CallLevenshteinDistance ==
    /\ npc = "call"
    /\ nop = "_levenshtein_distance"
    /\ nresult' = levenshtein_distance(nargs.s1, nargs.s2)
    /\ npc' = "returned"
    /\ UNCHANGED <<extVars, sbomVars, parseVars, resolveVars, pipeVars, riskVars, parVars,
                   nop, nargs>>

NamesNext ==
    \/ CallCheckSuspiciousName
    \/ CallCheckTyposquatting
    \/ CallLevenshteinDistance

SpecNames == NamesInit /\ [][NamesNext]_vars

\* The classic unit-cost edit distance, by its defining table: cell (i, j)
\* is the least number of insertions, deletions and substitutions turning the
\* first i characters of a into the first j characters of b.  Row i is the
\* sequence of the cells (i, 0) .. (i, Len(b)); above is row i - 1.
RECURSIVE EditRow(_, _, _, _, _)
EditRow(a, b, i, above, row) ==
    LET j == Len(row)
        cell == Min3(above[j + 1] + 1,
                     row[j] + 1,
                     above[j] + (IF a[i] = b[j] THEN 0 ELSE 1))
    IN IF j > Len(b) THEN row
       ELSE EditRow(a, b, i, above, Append(row, cell))

RECURSIVE EditTable(_, _, _, _)
EditTable(a, b, i, above) ==
    IF i > Len(a) THEN above
    ELSE LET row == EditRow(a, b, i, above, <<i>>)
         IN CASE Len(row) = Len(b) + 1 -> EditTable(a, b, i + 1, row)

EditDistance(a, b) ==
    EditTable(a, b, 1, [j \in 1..(Len(b) + 1) |-> j - 1])[Len(b) + 1]

\* some name of the ecosystem's popular list is one or two edits away,
\* letter case aside
NearPopular(name, ecosystem) ==
    /\ ecosystem \in DOMAIN popular_packages
    /\ \E k \in 1..Len(popular_packages[ecosystem]) :
         EditDistance(lower(name), lower(popular_packages[ecosystem][k])) \in {1, 2}

\* C16: _check_typosquatting returns true exactly when some name of the
\* ecosystem's popular list is at edit distance 1 or 2 from the name, compared
\* case-insensitively, and _levenshtein_distance returns the classic edit
\* distance of its arguments.
C16_TyposquatIffNear ==
    npc = "returned" =>
        /\ nop = "_check_typosquatting" =>
               nresult = NearPopular(nargs.package_name, nargs.ecosystem)
        /\ nop = "_levenshtein_distance" =>
               nresult = EditDistance(nargs.s1, nargs.s2)

C16_Witness ==
    /\ npc = "returned"
    /\ nop = "_check_typosquatting"
    /\ nargs.package_name = Reqeusts
    /\ nargs.ecosystem = "pip"
    /\ nresult = TRUE
    /\ levenshtein_distance(Reqeusts, Requests) = 2

\* C17: a name that equals, letter case aside, a name of the popular list it
\* is checked against is never reported as a potential typosquat.
C17_IdenticalNeverFlags ==
    (/\ npc = "returned"
     /\ nop = "_check_typosquatting"
     /\ nargs.ecosystem \in DOMAIN popular_packages
     /\ \E k \in 1..Len(popular_packages[nargs.ecosystem]) :
          lower(nargs.package_name) = lower(popular_packages[nargs.ecosystem][k]))
        => nresult = FALSE

\* what the name has to look like, by the words of C18, to end in digits
EndsInDigits(name) == Len(name) >= 1 /\ name[Len(name)] \in Digits

\* C18: _check_suspicious_name is true exactly when the name contains "test",
\* "temp" or "debug", ends in digits, ends in a generic utility word, consists
\* of 1 to 3 letters, or embeds a version-like token.
C18_SuspiciousExactly ==
    (npc = "returned" /\ nop = "_check_suspicious_name") =>
        nresult = (\/ Contains(nargs.package_name, <<"t", "e", "s", "t">>)
                   \/ Contains(nargs.package_name, <<"t", "e", "m", "p">>)
                   \/ Contains(nargs.package_name, <<"d", "e", "b", "u", "g">>)
                   \/ EndsInDigits(nargs.package_name)
                   \/ UtilitySuffix(nargs.package_name)
                   \/ VeryShort(nargs.package_name)
                   \/ VersionToken(nargs.package_name))

\* ------------------------------------------------------------------------
\* ParallelSBOMGenerator.generate_sbom_parallel
\*
\* Task k runs generate_with_semaphore(project_paths[k]).  project_paths[k]
\* says what generate_sbom does on that project: it returns an SBOM ("ok")
\* or raises ("raises").

\* asyncio.Semaphore.locked(): no permit left, or a task already waiting
locked_never(value, waiting) == FALSE

locked(value, waiting) == value = 0 \/ waiting # <<>>

\* what asyncio.gather hands back once every task has ended; with
\* return_exceptions=False the first exception would come out of the await
gather_first_exception(results) ==
    IF \E k \in 1..Len(results) : ~results[k].ok
    THEN [raised |-> TRUE, value |-> <<>>]
    ELSE [raised |-> FALSE, value |-> results]

gather_return_exceptions(results) == [raised |-> FALSE, value |-> results]

\* the slot of a task that has not ended yet
Pending == [ok |-> FALSE, project |-> 0]

\* isinstance(sbom, Exception)
is_exception(result) == ~result.ok

ParInit ==
    /\ SBOMInit
    /\ ParseIdle
    /\ ResolveIdle
    /\ PipeIdle
    /\ RiskIdle
    /\ NameIdle
    /\ ExtIdle
    /\ project_paths \in BoundedSeq({"ok", "raises"}, MaxProjects)
    /\ max_workers \in 1..MaxWorkers
    /\ permits = 0
    /\ waiters = <<>>
    /\ scan = <<>>
    /\ sboms = <<>>
    /\ valid_sboms = <<>>
    /\ qpc = "call"
    /\ qi = 0

\* the semaphore and the tasks are created and handed to gather
ParStart ==
    /\ qpc = "call"
    /\ permits' = max_workers
    /\ scan' = [k \in 1..Len(project_paths) |-> "created"]
    /\ sboms' = [k \in 1..Len(project_paths) |-> Pending]
    /\ qpc' = "gather"
    /\ UNCHANGED <<extVars, sbomVars, parseVars, resolveVars, pipeVars, riskVars, nameVars,
                   project_paths, max_workers, waiters, valid_sboms, qi>>

\* a task enters "async with semaphore": it takes a permit, or queues up
TaskAcquire ==
    /\ qpc = "gather"
    /\ \E k \in 1..Len(scan) :
         /\ scan[k] = "created"
         /\ IF ~locked(permits, waiters)
            THEN /\ permits' = permits - 1
                 /\ scan' = [scan EXCEPT ![k] = "scanning"]
                 /\ UNCHANGED waiters
            ELSE /\ waiters' = Append(waiters, k)
                 /\ scan' = [scan EXCEPT ![k] = "waiting"]
                 /\ UNCHANGED permits
    /\ UNCHANGED <<extVars, sbomVars, parseVars, resolveVars, pipeVars, riskVars, nameVars,
                   project_paths, max_workers, sboms, valid_sboms, qpc, qi>>

\* the oldest waiting task is woken by a release and takes the permit
TaskWake ==
    /\ qpc = "gather"
    /\ waiters # <<>>
    /\ permits > 0
    /\ permits' = permits - 1
    /\ scan' = [scan EXCEPT ![Head(waiters)] = "scanning"]
    /\ waiters' = Tail(waiters)
    /\ UNCHANGED <<extVars, sbomVars, parseVars, resolveVars, pipeVars, riskVars, nameVars,
                   project_paths, max_workers, sboms, valid_sboms, qpc, qi>>

\* generate_sbom returns; leaving the "async with" releases the permit
TaskReturn ==
    /\ qpc = "gather"
    /\ \E k \in 1..Len(scan) :
         /\ scan[k] = "scanning"
         /\ project_paths[k] = "ok"
         /\ sboms' = [sboms EXCEPT ![k] = [ok |-> TRUE, project |-> k]]
         /\ scan' = [scan EXCEPT ![k] = "finished"]
    /\ permits' = permits + 1
    /\ UNCHANGED <<extVars, sbomVars, parseVars, resolveVars, pipeVars, riskVars, nameVars,
                   project_paths, max_workers, waiters, valid_sboms, qpc, qi>>

\* generate_sbom raises; leaving the "async with" releases the permit
TaskRaise ==
    /\ qpc = "gather"
    /\ \E k \in 1..Len(scan) :
         /\ scan[k] = "scanning"
         /\ project_paths[k] = "raises"
         /\ sboms' = [sboms EXCEPT ![k] = [ok |-> FALSE, project |-> k]]
         /\ scan' = [scan EXCEPT ![k] = "finished"]
    /\ permits' = permits + 1
    /\ UNCHANGED <<extVars, sbomVars, parseVars, resolveVars, pipeVars, riskVars, nameVars,
                   project_paths, max_workers, waiters, valid_sboms, qpc, qi>>

\* every task has ended: the await on gather comes back
ParJoin ==
    /\ qpc = "gather"
    /\ \A k \in 1..Len(scan) : scan[k] = "finished"
    /\ LET out == gather_return_exceptions(sboms)
       IN IF out.raised
          THEN /\ qpc' = "raised"
               /\ UNCHANGED <<sboms, qi>>
          ELSE /\ sboms' = out.value
               /\ qpc' = "filter"
               /\ qi' = 1
    /\ UNCHANGED <<extVars, sbomVars, parseVars, resolveVars, pipeVars, riskVars, nameVars,
                   project_paths, max_workers, permits, waiters, scan, valid_sboms>>

\* one round of the loop over the gathered results
ParFilter ==
    /\ qpc = "filter"
    /\ qi <= Len(sboms)
    /\ valid_sboms' = IF is_exception(sboms[qi]) THEN valid_sboms
                      ELSE Append(valid_sboms, sboms[qi])
    /\ qi' = qi + 1
    /\ UNCHANGED <<extVars, sbomVars, parseVars, resolveVars, pipeVars, riskVars, nameVars,
                   project_paths, max_workers, permits, waiters, scan, sboms, qpc>>

ParReturn ==
    /\ qpc = "filter"
    /\ qi > Len(sboms)
    /\ qpc' = "returned"
    /\ UNCHANGED <<extVars, sbomVars, parseVars, resolveVars, pipeVars, riskVars, nameVars,
                   project_paths, max_workers, permits, waiters, scan, sboms,
                   valid_sboms, qi>>

ParNext ==
    \/ ParStart
    \/ TaskAcquire
    \/ TaskWake
    \/ TaskReturn
    \/ TaskRaise
    \/ ParJoin
    \/ ParFilter
    \/ ParReturn

SpecPar == ParInit /\ [][ParNext]_vars

\* the event loop runs every task that can run, and a scan ends
FairSpecPar == SpecPar /\ WF_vars(ParNext)

\* the tasks inside "async with semaphore"
Scanning == {k \in 1..Len(scan) : scan[k] = "scanning"}

\* task k has been let past the semaphore
Admitted(k) == k <= Len(scan) /\ scan[k] \in {"scanning", "finished"}

\* at most max_workers scans are in progress, and the permits not handed out
\* are those of the scans not in progress
C19_AtMostMaxWorkers ==
    /\ Cardinality(Scanning) <= max_workers
    /\ qpc = "gather" => permits + Cardinality(Scanning) = max_workers

\* C19: at most max_workers project scans are in progress at any moment, and
\* every project is eventually admitted.
C19_BoundedAndAdmitted ==
    /\ [](C19_AtMostMaxWorkers)
    /\ \A k \in 1..MaxProjects :
         (k <= Len(project_paths)) ~> Admitted(k)

C19_Witness ==
    /\ Len(project_paths) > max_workers
    /\ Cardinality(Scanning) = max_workers
    /\ waiters # <<>>
    /\ \E k \in 1..Len(scan) : scan[k] = "finished" /\ ~sboms[k].ok

\* the SBOMs of the projects up to n whose scan succeeded, in input order
RECURSIVE SucceededUpTo(_)
SucceededUpTo(n) ==
    IF n = 0 THEN <<>>
    ELSE IF project_paths[n] = "ok"
         THEN Append(SucceededUpTo(n - 1), [ok |-> TRUE, project |-> n])
         ELSE SucceededUpTo(n - 1)

\* C20: generate_sbom_parallel never raises because a project's scan failed,
\* and returns exactly the SBOMs of the projects whose scan succeeded, in
\* input order.
C20_FailuresFilteredOut ==
    /\ qpc # "raised"
    /\ qpc = "returned" => valid_sboms = SucceededUpTo(Len(project_paths))

C20_Witness ==
    /\ qpc = "returned"
    /\ Len(project_paths) = 3
    /\ project_paths[1] = "ok"
    /\ project_paths[2] = "raises"
    /\ project_paths[3] = "ok"
    /\ Len(valid_sboms) = 2

\* ------------------------------------------------------------------------
\* Version constraints (BaseParser._parse_version_constraint and the
\* helpers of PythonParser)
\*
\* A constraint is a sequence of one-character strings, as the names above.
\* ------------------------------------------------------------------------
Latest == <<"l", "a", "t", "e", "s", "t">>

\* Python's None where a string is expected
NoneStr == <<"None">>

\* str.startswith
StartsWith(str, prefix) ==
    Len(str) >= Len(prefix) /\ SubSeq(str, 1, Len(prefix)) = prefix

\* str.find: the first index at which sub occurs in str, 0 when it does not
Find(str, sub) ==
    LET hits == {i \in 1..(Len(str) - Len(sub) + 1) :
                    SubSeq(str, i, i + Len(sub) - 1) = sub}
    IN IF hits = {} THEN 0 ELSE CHOOSE i \in hits : \A j \in hits : i <= j

\* str.split(sep, 1)[0] and [1] for a separator that occurs
Before(str, sep) == SubSeq(str, 1, Find(str, sep) - 1)

After(str, sep) == SubSeq(str, Find(str, sep) + Len(sep), Len(str))

\* str.lstrip(chars)
RECURSIVE lstrip(_, _)
lstrip(str, chars) ==
    IF str # <<>> /\ Head(str) \in chars THEN lstrip(Tail(str), chars) ELSE str

\* str.rstrip(chars)
RECURSIVE rstrip(_, _)
rstrip(str, chars) ==
    IF str # <<>> /\ str[Len(str)] \in chars
    THEN rstrip(SubSeq(str, 1, Len(str) - 1), chars) ELSE str

\* str.strip()
strip(str) == rstrip(lstrip(str, {" "}), {" "})

\* BaseParser._parse_version_constraint: one leading operator is cut off
parse_version_constraint(constraint) ==
    IF StartsWith(constraint, <<"^">>) THEN Tail(constraint)
    ELSE IF StartsWith(constraint, <<"~">>) THEN Tail(constraint)
    ELSE IF StartsWith(constraint, <<">", "=">>) THEN Tail(Tail(constraint))
    ELSE IF StartsWith(constraint, <<">">>) THEN Tail(constraint)
    ELSE IF StartsWith(constraint, <<"<", "=">>) THEN Tail(Tail(constraint))
    ELSE IF StartsWith(constraint, <<"<">>) THEN Tail(constraint)
    ELSE IF StartsWith(constraint, <<"=">>) THEN Tail(constraint)
    ELSE constraint

\* the operators of _parse_requirement_line in the order they are tried
requirement_operators ==
    << <<"=", "=", "=">>, <<"=", "=">>, <<">", "=">>, <<"<", "=">>,
       <<"~", "=">>, <<"!", "=">>, <<">">>, <<"<">>, <<"=">> >>

VcsPrefixes ==
    {<<"g", "i", "t", "+">>, <<"h", "t", "t", "p", ":", "/", "/">>,
     <<"h", "t", "t", "p", "s", ":", "/", "/">>}

Egg == <<"#", "e", "g", "g", "=">>

\* an empty string is falsy: "x or None"
OrNone(str) == IF str = <<>> THEN NoneStr ELSE str

\* PythonParser._parse_requirement_line: (name, version) of a requirement
\* line; the lines of the model hold no extras in brackets
parse_requirement_line(raw) ==
    LET line == strip(IF Find(raw, <<";">>) # 0 THEN Before(raw, <<";">>) ELSE raw)
        found == SelectSeq(requirement_operators, LAMBDA op : Find(line, op) # 0)
    IN IF \E v \in VcsPrefixes : StartsWith(line, v)
       THEN (IF Find(line, Egg) # 0
             THEN [name |-> After(line, Egg), version |-> Latest]
             ELSE [name |-> NoneStr, version |-> NoneStr])
       ELSE IF found # <<>>
       THEN LET op == Head(found)
                version == strip(After(line, op))
            IN [name |-> OrNone(strip(Before(line, op))),
                version |-> OrNone(IF StartsWith(version, <<"=">>)
                                   THEN lstrip(version, {"="}) ELSE version)]
       ELSE [name |-> OrNone(strip(line)), version |-> NoneStr]

\* PythonParser._extract_poetry_version for a string spec
extract_poetry_version(spec) == strip(spec)

\* PythonParser._extract_pip_like_version for a string spec
extract_pip_like_version(spec) ==
    LET s == strip(spec)
    IN IF StartsWith(s, <<"=", "=">>) THEN Tail(Tail(s))
       ELSE IF s = <<"*">> THEN NoneStr
       ELSE s

\* version or "latest"
OrLatest(version) == IF version \in {NoneStr, <<>>} THEN Latest ELSE version

\* ------------------------------------------------------------------------
\* Specification SpecVersion: the version a manifest handler gives the
\* package of one declared dependency
\* ------------------------------------------------------------------------
VersionHandlers == {"package.json", "requirements.txt", "pyproject.toml", "Pipfile"}

\* the range operators a constraint can start with
LeadingOperators ==
    {<<>>, <<"^">>, <<"~">>, <<">", "=">>, <<"<", "=">>, <<">">>, <<"<">>,
     <<"=">>, <<"=", "=">>, <<"~", "=">>, <<"!", "=">>}

VersionBodies == {<<"1">>, <<"1", ".", "2">>, <<" ", "1">>}

\* what can follow the first version: a second bound, an environment marker
VersionTails ==
    {<<>>, <<",", "<", "2">>, <<" ", "<", "2">>, <<";", "m">>}

VcsUrl == <<"g", "i", "t", "+", "u">>

\* a dependency pinned to a repository or URL
IsVcs(spec) == \E v \in VcsPrefixes : Find(spec, v) # 0

\* the constraints a manifest can declare for a dependency
Constraints ==
    {op \o v \o t : op \in LeadingOperators, v \in VersionBodies,
                    t \in VersionTails}
        \cup {VcsUrl, <<"*">>}

\* the requirement lines of a requirements.txt: a name and a constraint, or
\* a repository URL naming its egg
RequirementLines ==
    {<<"r">> \o c : c \in Constraints \ {VcsUrl}}
        \cup {VcsUrl, VcsUrl \o Egg \o <<"r">>}

VersionInit ==
    /\ SBOMInit
    /\ ParseIdle
    /\ ResolveIdle
    /\ PipeIdle
    /\ RiskIdle
    /\ NameIdle
    /\ ParIdle
    /\ ModalIdle
    /\ IntelIdle
    /\ vhandler \in VersionHandlers
    /\ vspec \in (IF vhandler = "requirements.txt" THEN RequirementLines
                  ELSE Constraints)
    /\ vresult = NoneStr
    /\ vpc = "call"

\* JavaScriptParser._parse_package_json:
\* version=self._parse_version_constraint(version)
CallParseVersionConstraint ==
    /\ vpc = "call"
    /\ vhandler = "package.json"
    /\ vresult' = parse_version_constraint(vspec)
    /\ vpc' = "returned"
    /\ UNCHANGED <<sbomVars, parseVars, resolveVars, pipeVars, riskVars,
                   nameVars, parVars, modalVars, intelVars, vhandler, vspec>>

\* PythonParser._parse_requirements: a line without a name gives no
\* Dependency, the others version or "latest"
CallParseRequirementLine ==
    /\ vpc = "call"
    /\ vhandler = "requirements.txt"
    /\ LET parsed == parse_requirement_line(vspec)
       IN vresult' = IF parsed.name = NoneStr THEN NoneStr
                     ELSE OrLatest(parsed.version)
    /\ vpc' = "returned"
    /\ UNCHANGED <<sbomVars, parseVars, resolveVars, pipeVars, riskVars,
                   nameVars, parVars, modalVars, intelVars, vhandler, vspec>>

\* PythonParser._parse_pyproject
CallExtractPoetryVersion ==
    /\ vpc = "call"
    /\ vhandler = "pyproject.toml"
    /\ vresult' = OrLatest(extract_poetry_version(vspec))
    /\ vpc' = "returned"
    /\ UNCHANGED <<sbomVars, parseVars, resolveVars, pipeVars, riskVars,
                   nameVars, parVars, modalVars, intelVars, vhandler, vspec>>

\* PythonParser._parse_pipfile_manifest
CallExtractPipLikeVersion ==
    /\ vpc = "call"
    /\ vhandler = "Pipfile"
    /\ vresult' = OrLatest(extract_pip_like_version(vspec))
    /\ vpc' = "returned"
    /\ UNCHANGED <<sbomVars, parseVars, resolveVars, pipeVars, riskVars,
                   nameVars, parVars, modalVars, intelVars, vhandler, vspec>>

VersionNext ==
    \/ CallParseVersionConstraint
    \/ CallParseRequirementLine
    \/ CallExtractPoetryVersion
    \/ CallExtractPipLikeVersion

SpecVersion == VersionInit /\ [][VersionNext]_vars

OperatorChars == {"^", "~", ">", "<", "="}

\* C24: the version of every Dependency parse_manifest returns is
\* normalized: it does not start with a range operator (^ ~ >= <= > < =),
\* and a dependency pinned to a repository or URL has the version "latest".
C24_VersionNormalized ==
    (vpc = "returned" /\ vresult # NoneStr) =>
        /\ vresult # <<>>
        /\ vresult[1] \notin OperatorChars
        /\ IsVcs(vspec) => vresult = Latest

\* ------------------------------------------------------------------------
\* Specification SpecModal: one operation of ModalSBOMService
\*
\* A worker call either returns data that validates, or fails: the worker
\* raised, the call timed out, or the returned data did not validate.  The
\* local step (SBOMGenerator.generate_sbom, VulnerabilityEnricher
\* .enrich_sbom) returns its result or raises.
\* ------------------------------------------------------------------------
ModalOperations ==
    {"generate_sbom_remote", "enrich_vulnerabilities_remote", "full_scan_remote"}

RemoteErrors == {"RemoteError", "TimeoutError", "ValidationError"}

\* the declared return type of an operation
ResultShape(op) == IF op = "generate_sbom_remote" THEN "SBOM" ELSE "ScanResult"

Returned(op, by) ==
    [ok |-> TRUE, shape |-> ResultShape(op), by |-> by, error |-> None]

Raised(error, by) ==
    [ok |-> FALSE, shape |-> None, by |-> by, error |-> error]

\* a handler that lets the worker's failure leave the operation
except_clause_reraise(error) == "raise"

\* except Exception as e: log, then fall back
except_clause(error) == "fallback"

ServiceCall(op) == [op |-> op, pc |-> "try"]

Innermost == mstack[Len(mstack)]

\* the innermost service call ends with 'outcome': the operation ends, or
\* full_scan_remote's fallback goes on with the SBOM it awaited
ServiceReturn(outcome) ==
    IF Len(mstack) > 1 /\ mstack[1].pc = "await_sbom" /\ outcome.ok
    THEN /\ mstack' = <<[mstack[1] EXCEPT !.pc = "await_result"],
                        ServiceCall("enrich_vulnerabilities_remote")>>
         /\ UNCHANGED <<mresult, mpc>>
    ELSE /\ mstack' = <<>>
         /\ mresult' = outcome
         /\ mpc' = "returned"

ModalInit ==
    /\ SBOMInit
    /\ ParseIdle
    /\ ResolveIdle
    /\ PipeIdle
    /\ RiskIdle
    /\ NameIdle
    /\ ParIdle
    /\ VerIdle
    /\ IntelIdle
    /\ mop \in ModalOperations
    /\ mstack = <<>>
    /\ mlog = <<>>
    /\ mresult = None
    /\ mpc = "call"

\* the operation is entered
ModalCall ==
    /\ mpc = "call"
    /\ mstack' = <<ServiceCall(mop)>>
    /\ mpc' = "running"
    /\ UNCHANGED <<sbomVars, parseVars, resolveVars, pipeVars, riskVars,
                   nameVars, parVars, verVars, intelVars, mop, mlog, mresult>>

\* data = await worker.remote(...); return Model.model_validate(data)
WorkerReturns ==
    /\ mpc = "running"
    /\ Innermost.pc = "try"
    /\ mlog' = Append(mlog, [op |-> Innermost.op, event |-> "remote_ok",
                             error |-> None])
    /\ ServiceReturn(Returned(Innermost.op, "remote"))
    /\ UNCHANGED <<sbomVars, parseVars, resolveVars, pipeVars, riskVars,
                   nameVars, parVars, verVars, intelVars, mop>>

\* the worker call or the validation raises inside the try block
WorkerFails ==
    /\ mpc = "running"
    /\ Innermost.pc = "try"
    /\ \E e \in RemoteErrors :
         /\ mlog' = Append(mlog, [op |-> Innermost.op,
                                  event |-> "remote_failed", error |-> e])
         /\ IF except_clause(e) = "fallback"
            THEN /\ mstack' = [mstack EXCEPT ![Len(mstack)].pc = "fallback"]
                 /\ UNCHANGED <<mresult, mpc>>
            ELSE ServiceReturn(Raised(e, "remote"))
    /\ UNCHANGED <<sbomVars, parseVars, resolveVars, pipeVars, riskVars,
                   nameVars, parVars, verVars, intelVars, mop>>

\* return await generator.generate_sbom(project_path, project_name) /
\* return await enricher.enrich_sbom(sbom)
LocalReturns ==
    /\ mpc = "running"
    /\ Innermost.pc = "fallback"
    /\ Innermost.op # "full_scan_remote"
    /\ mlog' = Append(mlog, [op |-> Innermost.op, event |-> "local_ok",
                             error |-> None])
    /\ ServiceReturn(Returned(Innermost.op, "local"))
    /\ UNCHANGED <<sbomVars, parseVars, resolveVars, pipeVars, riskVars,
                   nameVars, parVars, verVars, intelVars, mop>>

\* the local step raises inside the except clause: its exception leaves
\* the operation
LocalRaises ==
    /\ mpc = "running"
    /\ Innermost.pc = "fallback"
    /\ Innermost.op # "full_scan_remote"
    /\ mlog' = Append(mlog, [op |-> Innermost.op, event |-> "local_raised",
                             error |-> "LocalError"])
    /\ ServiceReturn(Raised("LocalError", "local"))
    /\ UNCHANGED <<sbomVars, parseVars, resolveVars, pipeVars, riskVars,
                   nameVars, parVars, verVars, intelVars, mop>>

\* full_scan_remote's fallback: sbom = await self.generate_sbom_remote(...),
\* then return await self.enrich_vulnerabilities_remote(sbom)
FullScanFallback ==
    /\ mpc = "running"
    /\ Innermost.pc = "fallback"
    /\ Innermost.op = "full_scan_remote"
    /\ mstack' = <<[Innermost EXCEPT !.pc = "await_sbom"],
                   ServiceCall("generate_sbom_remote")>>
    /\ UNCHANGED <<sbomVars, parseVars, resolveVars, pipeVars, riskVars,
                   nameVars, parVars, verVars, intelVars, mop, mlog, mresult,
                   mpc>>

ModalNext ==
    \/ ModalCall
    \/ WorkerReturns
    \/ WorkerFails
    \/ LocalReturns
    \/ LocalRaises
    \/ FullScanFallback

SpecModal == ModalInit /\ [][ModalNext]_vars

\* the operation's own worker call failed
OwnWorkerFailed ==
    \E i \in 1..Len(mlog) :
        mlog[i].op = mop /\ mlog[i].event = "remote_failed"

\* the step that produced the operation's outcome
LastStep == mlog[Len(mlog)]

IntelEntries ==
    {"gather_supply_chain_intelligence_remote", "gather_package_intelligence"}

\* packages_data[i:i + batch_size], as 1-based package indices
batch(i, n) == {k \in (i + 1)..(i + batch_size) : k <= n}

IntelInit ==
    /\ SBOMInit
    /\ ParseIdle
    /\ ResolveIdle
    /\ PipeIdle
    /\ RiskIdle
    /\ NameIdle
    /\ ParIdle
    /\ VerIdle
    /\ ModalIdle
    /\ ientry \in IntelEntries
    /\ ipackages \in 0..MaxPackages
    /\ ioffset = 0
    /\ outstanding = {}
    /\ istarted = <<>>
    /\ iresults = 0
    /\ ipc = "call"

\* batch_results = await supply_chain_intelligence_worker.remote(batch):
\* the worker gathers the intelligence of the batch
RemoteBatchStart ==
    /\ ientry = "gather_supply_chain_intelligence_remote"
    /\ ipc \in {"call", "loop"}
    /\ ioffset < ipackages
    /\ outstanding' = batch(ioffset, ipackages)
    /\ istarted' = Append(istarted, batch(ioffset, ipackages))
    /\ ipc' = "worker"
    /\ UNCHANGED <<sbomVars, parseVars, resolveVars, pipeVars, riskVars,
                   nameVars, parVars, verVars, modalVars, ientry, ipackages,
                   ioffset, iresults>>

\* one request of the gather in progress completes
RequestCompletes ==
    /\ ipc \in {"worker", "local"}
    /\ \E k \in outstanding : outstanding' = outstanding \ {k}
    /\ UNCHANGED <<sbomVars, parseVars, resolveVars, pipeVars, riskVars,
                   nameVars, parVars, verVars, modalVars, ientry, ipackages,
                   ioffset, istarted, iresults, ipc>>

\* all_results.extend(batch_results); the loop moves to the next batch
RemoteBatchReturn ==
    /\ ipc = "worker"
    /\ outstanding = {}
    /\ iresults' = iresults + Cardinality(batch(ioffset, ipackages))
    /\ ioffset' = ioffset + batch_size
    /\ ipc' = "loop"
    /\ UNCHANGED <<sbomVars, parseVars, resolveVars, pipeVars, riskVars,
                   nameVars, parVars, verVars, modalVars, ientry, ipackages,
                   outstanding, istarted>>

\* a worker call raises or times out: the except clause is entered and the
\* worker with its requests is gone
RemoteBatchFails ==
    /\ ientry = "gather_supply_chain_intelligence_remote"
    /\ \/ ipc \in {"call", "loop"} /\ ioffset < ipackages
       \/ ipc = "worker"
    /\ outstanding' = {}
    /\ ipc' = "fallback"
    /\ UNCHANGED <<sbomVars, parseVars, resolveVars, pipeVars, riskVars,
                   nameVars, parVars, verVars, modalVars, ientry, ipackages,
                   ioffset, istarted, iresults>>

\* the loop is exhausted: return all_results
RemoteReturn ==
    /\ ientry = "gather_supply_chain_intelligence_remote"
    /\ ipc \in {"call", "loop"}
    /\ ioffset >= ipackages
    /\ ipc' = "returned"
    /\ UNCHANGED <<sbomVars, parseVars, resolveVars, pipeVars, riskVars,
                   nameVars, parVars, verVars, modalVars, ientry, ipackages,
                   ioffset, outstanding, istarted, iresults>>

\* intel_service.gather_package_intelligence(packages), called directly or
\* from the except clause: one task per package, one asyncio.gather
LocalGather ==
    /\ \/ ientry = "gather_package_intelligence" /\ ipc = "call"
       \/ ipc = "fallback"
    /\ outstanding' = 1..ipackages
    /\ istarted' = Append(istarted, 1..ipackages)
    /\ iresults' = 0
    /\ ipc' = "local"
    /\ UNCHANGED <<sbomVars, parseVars, resolveVars, pipeVars, riskVars,
                   nameVars, parVars, verVars, modalVars, ientry, ipackages,
                   ioffset>>

\* return valid_results / return results
LocalReturn ==
    /\ ipc = "local"
    /\ outstanding = {}
    /\ iresults' = ipackages
    /\ ipc' = "returned"
    /\ UNCHANGED <<sbomVars, parseVars, resolveVars, pipeVars, riskVars,
                   nameVars, parVars, verVars, modalVars, ientry, ipackages,
                   ioffset, outstanding, istarted>>

IntelNext ==
    \/ RemoteBatchStart
    \/ RequestCompletes
    \/ RemoteBatchReturn
    \/ RemoteBatchFails
    \/ RemoteReturn
    \/ LocalGather
    \/ LocalReturn

SpecIntel == IntelInit /\ [][IntelNext]_vars

\* C22: on every path the packages are gathered in batches of at most
\* batch_size, never more than one batch at a time: no gather is started
\* for more than batch_size packages and the requests of at most batch_size
\* packages are outstanding at once.
C22_BatchesBounded ==
    /\ Cardinality(outstanding) <= batch_size
    /\ \A k \in 1..Len(istarted) : Cardinality(istarted[k]) <= batch_size

====
